---- MODULE Spec2Model ----
(***************************************************************************)
(* Scoring and aggregation pipeline of the secure-coding benchmark:        *)
(* scripts/run_generate.py (file naming), scripts/run_bandit.py,           *)
(* scripts/parse_bandit_results.py, scripts/run_probes.py and              *)
(* scripts/parse_probes.py.                                                *)
(*                                                                         *)
(* Python strings are sequences of one-character strings, so that the      *)
(* regular expressions, str.replace, str.upper and the `in` substring test *)
(* are computed character by character as the interpreter computes them.   *)
(***************************************************************************)
EXTENDS Integers, Sequences, FiniteSets, TLC

VARIABLES
    jsonReport,     \* parse_json: the decoded Bandit report given to it
    jsonMetrics,    \* parse_json: the (ic, swc, vp) it returned, or NoResult
    cfgRoot,        \* ROOT: the installation directory of the scripts
    cfgRunId,       \* RUN_ID of the invocation
    unit,           \* the (task, model, seed, arm) a sample was generated for
    pyPath,         \* path of the sample file under outputs/<RUN_ID>/<arm>/
    banditDir,      \* files of eval/bandit_reports/<RUN_ID>: {[name, content]}
    errLog,         \* lines the scripts printed to stderr
    lastScan,       \* scan_file: the file scanned last and the analyzer's outcome
    scans,          \* number of scan_file calls made
    crashed,        \* an exception left the running script
    nameParsed,     \* parse_filename: its result on a report path
    metaParsed,     \* parse_file_meta: its result on the sample path
    probeDir,       \* files of eval/probes_reports/<RUN_ID>: {[name, content]}
    banditSamplesCsv,   \* eval/bandit_samples_<RUN_ID>.csv
    banditAggCsv,       \* eval/bandit_aggregated_<RUN_ID>.csv
    probesSamplesCsv,   \* eval/probes_samples_<RUN_ID>.csv
    probesAggCsv,       \* eval/probes_aggregated_<RUN_ID>.csv
    outTree,        \* outputs/<RUN_ID>: whether it exists, its files, and
                    \* the order in which the file system enumerates them
    madeDirs,       \* the report directories that exist
    lastRun,        \* the runner invoked last, the files it visited, its end
    analyzer,       \* the Bandit installation: whether `bandit` can be run
    disk,           \* the directories and CSV files of several run ids
    srcText,        \* a probe function: the source text given to it
    probeVerdict,   \* a probe function: what it returned, or NoResult
    gen             \* run_generate.py: main's position, its counters, and
                    \* the files it has written

jsonVars == <<jsonReport, jsonMetrics>>
sampleVars == <<cfgRoot, cfgRunId, unit, pyPath, banditDir, errLog, lastScan,
                scans, crashed, nameParsed, metaParsed>>
aggVars == <<probeDir, banditSamplesCsv, banditAggCsv, probesSamplesCsv,
             probesAggCsv>>
runVars == <<outTree, madeDirs, lastRun, analyzer, disk>>
probeVars == <<srcText, probeVerdict>>
genVars == <<gen>>
vars == <<jsonVars, sampleVars, aggVars, runVars, probeVars, genVars>>

(***************************************************************************)
(* Bounds of the model.                                                    *)
(***************************************************************************)
MaxIssues == 3      \* longest `results` list of a Bandit report
MaxScans == 2       \* scan_file calls followed for one sample file
MaxReports == 3     \* most files in a Bandit report directory
MaxProbeReports == 4    \* most files in a probe report directory

(***************************************************************************)
(* Python values.                                                          *)
(***************************************************************************)
\* None, as a value no string equals (its one element is not a character).
PyNone == <<"<None>">>
\* The result slot of a function that has not been applied yet.
NoResult == [applied |-> FALSE]

\* The element of a one-element set.  {F(x) : x \in {e}} binds x to the
\* value of e, the way a local variable holds the value assigned to it.
TheOne(S) == CHOOSE x \in S : TRUE

LowerLetters == <<"a","b","c","d","e","f","g","h","i","j","k","l","m",
                  "n","o","p","q","r","s","t","u","v","w","x","y","z">>
UpperLetters == <<"A","B","C","D","E","F","G","H","I","J","K","L","M",
                  "N","O","P","Q","R","S","T","U","V","W","X","Y","Z">>
Digits == <<"0","1","2","3","4","5","6","7","8","9">>

IsIn(c, alphabet) == \E i \in DOMAIN alphabet : alphabet[i] = c

\* str.upper(): every lower-case letter becomes its upper-case letter.
py_upper(s) ==
    [i \in DOMAIN s |->
        IF IsIn(s[i], LowerLetters)
        THEN UpperLetters[CHOOSE k \in DOMAIN LowerLetters : LowerLetters[k] = s[i]]
        ELSE s[i]]

\* `x or ""`: None and the empty string both give the empty string.
py_or_empty(x) == IF x = PyNone \/ x = <<>> THEN <<>> ELSE x

(***************************************************************************)
(* parse_bandit_results.py: per-report metrics.                            *)
(***************************************************************************)
S_LOW == <<"L","O","W">>
S_MEDIUM == <<"M","E","D","I","U","M">>
S_HIGH == <<"H","I","G","H">>
S_high == <<"h","i","g","h">>
S_UNDEFINED == <<"U","N","D","E","F","I","N","E","D">>

\* C2 mutant: HIGH weighted 4.
SEV_W_heavy == (S_LOW :> 1) @@ (S_MEDIUM :> 2) @@ (S_HIGH :> 4)

SEV_W == (S_LOW :> 1) @@ (S_MEDIUM :> 2) @@ (S_HIGH :> 3)

\* SEV_W.get(key, 0)
SevWeight(key) == IF key \in DOMAIN SEV_W THEN SEV_W[key] ELSE 0

\* (i.get("issue_severity") or "").upper(); a missing key reads as None.
IssueSeverity(issue) == py_upper(py_or_empty(issue.issue_severity))

RECURSIVE SumWeights(_)
SumWeights(issues) ==
    IF issues = <<>> THEN 0
    ELSE SevWeight(IssueSeverity(Head(issues))) + SumWeights(Tail(issues))

\* C1 mutant: only HIGH sets the vulnerability flag.
parse_json_high_only(data) ==
    LET issues == IF "results" \in DOMAIN data THEN data.results ELSE <<>>
    IN  [applied |-> TRUE,
         ic |-> Len(issues),
         swc |-> SumWeights(issues),
         vp |-> IF \E i \in DOMAIN issues : IssueSeverity(issues[i]) = S_HIGH
                THEN 1 ELSE 0]

\* parse_json(fp) on the decoded document `data`.
parse_json(data) ==
    LET issues == IF "results" \in DOMAIN data THEN data.results ELSE <<>>
    IN  [applied |-> TRUE,
         ic |-> Len(issues),
         swc |-> SumWeights(issues),
         vp |-> IF \E i \in DOMAIN issues :
                       IssueSeverity(issues[i]) \in {S_HIGH, S_MEDIUM}
                THEN 1 ELSE 0]

(***************************************************************************)
(* String and path primitives used by the scripts.                         *)
(***************************************************************************)
\* str.replace(old, new) for one-character `old` and `new`.
py_replace(s, old, new) == [i \in DOMAIN s |-> IF s[i] = old THEN new ELSE s[i]]

\* s[i : j] of Python with 1-based i and exclusive j.
Slice(s, i, j) == [k \in 1..(j - i) |-> s[i + k - 1]]

\* `lit` occurs in `s` at position i.
HasLiteral(s, i, lit) ==
    /\ i >= 1
    /\ i + Len(lit) - 1 <= Len(s)
    /\ \A k \in DOMAIN lit : s[i + k - 1] = lit[k]

\* `sub in s`
py_in(sub, s) == \E i \in 1..(Len(s) + 1) : HasLiteral(s, i, sub)

\* str(n) of an int: decimal digits, '-' in front of a negative number.
RECURSIVE DecimalDigits(_)
DecimalDigits(n) ==
    IF n < 10 THEN <<Digits[n + 1]>>
    ELSE DecimalDigits(n \div 10) \o <<Digits[(n % 10) + 1]>>

py_str(n) == IF n < 0 THEN <<"-">> \o DecimalDigits(0 - n) ELSE DecimalDigits(n)

\* int(s) of a string of decimal digits.
DigitValue(c) == (CHOOSE k \in DOMAIN Digits : Digits[k] = c) - 1

RECURSIVE py_int(_)
py_int(s) ==
    IF Len(s) = 1 THEN DigitValue(s[1])
    ELSE 10 * py_int(Slice(s, 1, Len(s))) + DigitValue(s[Len(s)])

\* os.path.join(a, b) of a directory and a relative name.
path_join(a, b) == a \o <<"/">> \o b

\* os.path.basename: what follows the last '/'.
basename(p) ==
    LET cuts == {i \in DOMAIN p : p[i] = "/"}
        last == IF cuts = {} THEN 0 ELSE CHOOSE i \in cuts : \A j \in cuts : j <= i
    IN  Slice(p, last + 1, Len(p) + 1)

\* os.path.relpath(p, root) of a path below `root`.
relpath(p, root) ==
    IF HasLiteral(p, 1, root \o <<"/">>)
    THEN Slice(p, Len(root) + 2, Len(p) + 1)
    ELSE p

(***************************************************************************)
(* The two file-name patterns.  Each repeated class is followed by a       *)
(* character outside the class ('_' or '.'), so the greedy repetition can  *)
(* only end where the run of class characters ends: a match at a position  *)
(* is unique and no backtracking finds another.                            *)
(***************************************************************************)
DigitClass == Digits                                 \* \d
LowerAlnumClass == LowerLetters \o Digits            \* [a-z0-9]
ModelCharClass == LowerAlnumClass \o <<"-">>         \* [a-z0-9\-]

\* The index after the longest run of characters of a class starting at i.
RunEnd(s, i, class) ==
    CHOOSE j \in i..(Len(s) + 1) :
        /\ \A k \in i..(j - 1) : IsIn(s[k], class)
        /\ j = Len(s) + 1 \/ ~IsIn(s[j], class)

S_task == <<"t","a","s","k">>
S_sep_s == <<"_","s">>
S_dot_py == <<".","p","y">>
S_dot_py_json == <<".","p","y",".","j","s","o","n">>
S_dot_json == <<".","j","s","o","n">>
S_unknown == <<"u","n","k","n","o","w","n">>
S_baseline == <<"b","a","s","e","l","i","n","e">>
S_improved == <<"i","m","p","r","o","v","e","d">>
S_outputs == <<"o","u","t","p","u","t","s">>

NoMatch == [matched |-> FALSE]

\* (task\d+_[a-z0-9]+) at position i: the index after the group, or 0.
TaskGroupEnd(s, i) ==
    IF ~HasLiteral(s, i, S_task) THEN 0
    ELSE LET d == RunEnd(s, i + 4, DigitClass)
         IN  IF d = i + 4 \/ ~HasLiteral(s, d, <<"_">>) THEN 0
             ELSE LET e == RunEnd(s, d + 1, LowerAlnumClass)
                  IN  IF e = d + 1 THEN 0 ELSE e

\* _s(\d+)<suffix> at position i: the seed digits, or <<>>.
SeedGroup(s, i, suffix) ==
    IF ~HasLiteral(s, i, S_sep_s) THEN <<>>
    ELSE LET g == RunEnd(s, i + 2, DigitClass)
         IN  IF g = i + 2 \/ ~HasLiteral(s, g, suffix) THEN <<>>
             ELSE Slice(s, i + 2, g)

\* (task\d+_[a-z0-9]+)_([a-z0-9\-]+)_s(\d+)<suffix> matched at position i.
RichMatchAt(s, i, suffix) ==
    LET c == TaskGroupEnd(s, i)
    IN  IF c = 0 \/ ~HasLiteral(s, c, <<"_">>) THEN NoMatch
        ELSE LET e == RunEnd(s, c + 1, ModelCharClass)
                 seed == SeedGroup(s, e, suffix)
             IN  IF e = c + 1 \/ seed = <<>> THEN NoMatch
                 ELSE [matched |-> TRUE,
                       g1 |-> Slice(s, i, c),
                       g2 |-> Slice(s, c + 1, e),
                       g3 |-> seed]

\* (task\d+_[a-z0-9]+)_s(\d+)<suffix> matched at position i.
OldMatchAt(s, i, suffix) ==
    LET c == TaskGroupEnd(s, i)
        seed == IF c = 0 THEN <<>> ELSE SeedGroup(s, c, suffix)
    IN  IF seed = <<>> THEN NoMatch
        ELSE [matched |-> TRUE, g1 |-> Slice(s, i, c), g2 |-> seed]

\* The two patterns of the parsers: with and without the model group.
RichPattern == "rich"
OldPattern == "old"

MatchAt(pattern, s, i, suffix) ==
    IF pattern = RichPattern THEN RichMatchAt(s, i, suffix)
    ELSE OldMatchAt(s, i, suffix)

\* re.search: the match at the leftmost position that has one.
re_search(pattern, s, suffix) ==
    IF \E i \in DOMAIN s : MatchAt(pattern, s, i, suffix).matched
    THEN MatchAt(pattern, s,
                 CHOOSE i \in DOMAIN s :
                     /\ MatchAt(pattern, s, i, suffix).matched
                     /\ \A j \in 1..(i - 1) :
                            ~MatchAt(pattern, s, j, suffix).matched,
                 suffix)
    ELSE NoMatch

\* re.match: the match at the start of the string.
re_match(pattern, s, suffix) ==
    IF s = <<>> THEN NoMatch ELSE MatchAt(pattern, s, 1, suffix)

(***************************************************************************)
(* run_generate.py, run_bandit.py: how a sample and its report are named.  *)
(***************************************************************************)
\* save_code: outputs/<RUN_ID>/<arm>/<task>_<model with ':' as '-'>_s<seed>.py
save_code_path(runId, arm, task_id, model, seed) ==
    path_join(path_join(path_join(S_outputs, runId), arm),
              task_id \o <<"_">> \o py_replace(model, ":", "-")
                      \o S_sep_s \o py_str(seed) \o S_dot_py)

\* scan_file: the report name of a sample file.
scan_file_out_name(pyfile, root) ==
    LET rel == py_replace(relpath(pyfile, root), "\\", "/")
    IN  py_replace(rel, "/", "_") \o S_dot_json

(***************************************************************************)
(* run_bandit.py: scan_file.                                               *)
(***************************************************************************)
S_eval == <<"e","v","a","l">>
S_bandit_reports == <<"b","a","n","d","i","t","_","r","e","p","o","r","t","s">>

\* OUT_ROOT and REPORT_DIR of run_bandit.py / parse_bandit_results.py.
OUT_ROOT(root, runId) == path_join(path_join(root, S_outputs), runId)
REPORT_DIR(root, runId) ==
    path_join(path_join(path_join(root, S_eval), S_bandit_reports), runId)

Whitespace == {" ", "\n", "\t", "\r"}

\* str.strip(): leading and trailing whitespace removed.
py_strip(s) ==
    LET keep == {i \in DOMAIN s : s[i] \notin Whitespace}
    IN  IF keep = {} THEN <<>>
        ELSE Slice(s, CHOOSE i \in keep : \A j \in keep : i <= j,
                      (CHOOSE i \in keep : \A j \in keep : j <= i) + 1)

\* C10 mutant: the captured output is not looked at.
scan_ok_any_stdout(returncode, stdout) == returncode \in {0, 1}

\* `res.returncode in (0, 1) and res.stdout.strip()`
scan_ok(returncode, stdout) == returncode \in {0, 1} /\ py_strip(stdout) # <<>>

\* open(path, "w").write(content) in a directory of [name, content] files.
WriteFile(dir, name, content) ==
    {f \in dir : f.name # name} \cup {[name |-> name, content |-> content]}

FileNames(dir) == {f.name : f \in dir}

(***************************************************************************)
(* parse_bandit_results.py, run_probes.py: the file-name parsers.          *)
(***************************************************************************)
\* parse_filename: arm, from the base name
filename_arm(base) ==
    IF py_in(S_baseline, base) THEN S_baseline
    ELSE IF py_in(S_improved, base) THEN S_improved
    ELSE S_unknown

\* parse_filename: the tuple returned, from the two match objects
filename_result(arm, m, m2) ==
    IF m.matched
    THEN [applied |-> TRUE, task |-> m.g1,
          model |-> py_replace(m.g2, "-", ":"), arm |-> arm,
          seed |-> py_int(m.g3)]
    ELSE [applied |-> TRUE,
          task |-> IF m2.matched THEN m2.g1 ELSE S_unknown,
          model |-> S_unknown, arm |-> arm,
          seed |-> IF m2.matched THEN py_int(m2.g2) ELSE -1]

\* parse_filename(fp)
parse_filename(fp) ==
    TheOne({TheOne({filename_result(arm, m, m2) :
                       arm \in {filename_arm(base)},
                       m \in {re_search(RichPattern, base, S_dot_py_json)},
                       m2 \in {re_search(OldPattern, base, S_dot_py_json)}}) :
               base \in {basename(fp)}})

\* parse_file_meta: the dict returned, or None, from the match object
file_meta_result(arm, m) ==
    IF ~m.matched
    THEN [applied |-> TRUE, none |-> TRUE]
    ELSE [applied |-> TRUE, none |-> FALSE, task |-> m.g1,
          model |-> py_replace(m.g2, "-", ":"), seed |-> py_int(m.g3),
          arm |-> arm]

\* parse_file_meta(py_path); `none` stands for the None it returns.
parse_file_meta(py_path) ==
    TheOne({file_meta_result(
                IF py_in(S_baseline, py_path) THEN S_baseline ELSE S_improved,
                m) :
               m \in {re_match(RichPattern, basename(py_path), S_dot_py)}})

(***************************************************************************)
(* Order of strings and of (task, model, arm) keys, as sorted() compares   *)
(* them: by code point, a proper prefix first, tuples field by field.      *)
(***************************************************************************)
IndexIn(c, alphabet) == CHOOSE k \in DOMAIN alphabet : alphabet[k] = c

\* ord(c) for the characters that file names and keys are made of.
ord(c) ==
    IF IsIn(c, Digits) THEN 47 + IndexIn(c, Digits)
    ELSE IF IsIn(c, UpperLetters) THEN 64 + IndexIn(c, UpperLetters)
    ELSE IF IsIn(c, LowerLetters) THEN 96 + IndexIn(c, LowerLetters)
    ELSE IF c = "-" THEN 45
    ELSE IF c = "." THEN 46
    ELSE IF c = "/" THEN 47
    ELSE IF c = ":" THEN 58
    ELSE 95     \* '_'

\* a < b on str
StrLess(a, b) ==
    \E i \in 1..(Len(a) + 1) :
        /\ i <= Len(b)
        /\ \A k \in 1..(i - 1) : a[k] = b[k]
        /\ i = Len(a) + 1 \/ ord(a[i]) < ord(b[i])

\* k1 < k2 on tuples of three strings
KeyLess(k1, k2) ==
    \/ StrLess(k1[1], k2[1])
    \/ k1[1] = k2[1] /\ StrLess(k1[2], k2[2])
    \/ k1[1] = k2[1] /\ k1[2] = k2[2] /\ StrLess(k1[3], k2[3])

\* sorted() of a set of distinct keys
RECURSIVE SortKeys(_)
SortKeys(keys) ==
    IF keys = {} THEN <<>>
    ELSE LET least == CHOOSE x \in keys : \A y \in keys \ {x} : KeyLess(x, y)
         IN  <<least>> \o SortKeys(keys \ {least})

(***************************************************************************)
(* Rounded numbers.  A value written with d decimals is kept as the        *)
(* integer number of its last decimal unit: VP_pct in tenths, IC_mean and  *)
(* SWC_mean in hundredths, RPR and RPR_mean in thousandths.                *)
(***************************************************************************)
\* num/den rounded to the nearest integer, a tie to the even one.  This is
\* round(float(num)/den, 0) whenever a tie num/den = k + 1/2 is a binary
\* fraction, which holds for the means of fewer than 40 integers taken to
\* one or two decimals.
RoundHalfEven(num, den) ==
    LET q == num \div den
        r == num % den
    IN  IF 2 * r < den THEN q
        ELSE IF 2 * r > den THEN q + 1
        ELSE IF q % 2 = 0 THEN q ELSE q + 1

Max(a, b) == IF a >= b THEN a ELSE b

RECURSIVE SumField(_, _)
SumField(lst, field) ==
    IF lst = <<>> THEN 0 ELSE Head(lst)[field] + SumField(Tail(lst), field)

(***************************************************************************)
(* Python floats.  A float x >= 0 is kept exactly, as the integer x * 2^66 *)
(* written in four digits of base 2^20, most significant first; every      *)
(* double in [2^-13, 2^7) has that form.  Each operation computes the      *)
(* exact result and rounds it to 53 significant bits, a tie to even, as    *)
(* IEEE 754 binary64 arithmetic does.                                      *)
(***************************************************************************)
LimbBase == 1048576        \* 2^20
FracUnit == 64             \* 2^66 = FracUnit * LimbBase^3
MantissaBits == 53
FloatZero == <<0, 0, 0, 0>>

RECURSIVE Pow2(_)
Pow2(n) == IF n = 0 THEN 1 ELSE 2 * Pow2(n - 1)

RECURSIVE BitLen(_)
BitLen(n) == IF n = 0 THEN 0 ELSE 1 + BitLen(n \div 2)

FloatBitLen(X) ==
    IF X[1] > 0 THEN 60 + BitLen(X[1])
    ELSE IF X[2] > 0 THEN 40 + BitLen(X[2])
    ELSE IF X[3] > 0 THEN 20 + BitLen(X[3])
    ELSE BitLen(X[4])

\* X + c * LimbBase^0 for a small c, the carries moved up.
AddLow(X, c) ==
    LET t4 == X[4] + c
        t3 == X[3] + (t4 \div LimbBase)
        t2 == X[2] + (t3 \div LimbBase)
        t1 == X[1] + (t2 \div LimbBase)
    IN  <<t1, t2 % LimbBase, t3 % LimbBase, t4 % LimbBase>>

\* The double nearest to X (+ a fraction of its last unit when `sticky`).
Round53(X, sticky) ==
    LET d == FloatBitLen(X) - MantissaBits
    IN  IF d <= 0 THEN X
        ELSE LET step == Pow2(d)
                 low == X[4] % step
                 half == step \div 2
                 odd == IF d < 20 THEN (X[4] \div step) % 2 = 1
                        ELSE X[3] % 2 = 1
                 up == \/ low > half
                       \/ low = half /\ (sticky \/ odd)
             IN  AddLow(X, IF up THEN step - low ELSE 0 - low)

\* a + b
fl_add(X, Y) ==
    LET t4 == X[4] + Y[4]
        t3 == X[3] + Y[3] + (t4 \div LimbBase)
        t2 == X[2] + Y[2] + (t3 \div LimbBase)
        t1 == X[1] + Y[1] + (t2 \div LimbBase)
    IN  Round53(<<t1, t2 % LimbBase, t3 % LimbBase, t4 % LimbBase>>, FALSE)

\* a / n for an int n in 1..1000
fl_div(X, n) ==
    LET q1 == X[1] \div n
        r1 == X[1] % n
        q2 == (r1 * LimbBase + X[2]) \div n
        r2 == (r1 * LimbBase + X[2]) % n
        q3 == (r2 * LimbBase + X[3]) \div n
        r3 == (r2 * LimbBase + X[3]) % n
        q4 == (r3 * LimbBase + X[4]) \div n
        r4 == (r3 * LimbBase + X[4]) % n
    IN  Round53(<<q1, q2, q3, q4>>, r4 # 0)

\* float(k) of an int k in 0..16383
fl_int(k) == <<k * FracUnit, 0, 0, 0>>

\* round(x, 3), as the number K of thousandths of its result K/1000: the
\* exact value of x taken to three decimals, a tie to the even one.
fl_round3(X) ==
    LET p4 == X[4] * 1000
        p3 == X[3] * 1000 + (p4 \div LimbBase)
        p2 == X[2] * 1000 + (p3 \div LimbBase)
        p1 == X[1] * 1000 + (p2 \div LimbBase)
        whole == p1 \div FracUnit
        f1 == p1 % FracUnit
        rest == (p2 % LimbBase) + (p3 % LimbBase) + (p4 % LimbBase)
        half == FracUnit \div 2
    IN  IF f1 > half \/ (f1 = half /\ rest > 0) THEN whole + 1
        ELSE IF f1 = half /\ rest = 0 /\ whole % 2 = 1 THEN whole + 1
        ELSE whole

\* The float that K thousandths denote: the double nearest to K/1000.
fl_thousandths(K) == fl_div(fl_int(K), 1000)

(***************************************************************************)
(* parse_bandit_results.py: main.                                          *)
(***************************************************************************)
S_meta == <<"_","m","e","t","a">>

NoFile == [exists |-> FALSE]
CsvFile(rows) == [exists |-> TRUE, rows |-> rows]

\* C8 mutant: a report whose name cannot be parsed is skipped as well.
is_meta_or_unparsed(fp) ==
    \/ HasLiteral(basename(fp), 1, S_meta)
    \/ parse_filename(fp).task = S_unknown

\* C22 mutant: no report is skipped as the meta file.
is_meta_never(fp) == FALSE

\* os.path.basename(fp).startswith("_meta")
is_meta(fp) == HasLiteral(basename(fp), 1, S_meta)

\* rows.append({...}): the row of a report
BanditRow(runId, fp, p, j) ==
    [RUN_ID |-> runId, task |-> p.task, model |-> p.model, arm |-> p.arm,
     seed |-> p.seed, IC |-> j.ic, SWC |-> j.swc, VP |-> j.vp, file |-> fp]

\* One pass of the loop over the reports: the row appended for the file, if
\* any.
BanditRowOf(file, root, runId) ==
    TheOne({IF is_meta(fp) THEN <<>>
            ELSE TheOne({<<BanditRow(runId, fp, p, j)>> :
                            p \in {parse_filename(fp)},
                            j \in {parse_json(file.content)}}) :
               fp \in {path_join(REPORT_DIR(root, runId), file.name)}})

\* A report file holds a JSON document, or a text that is not JSON.
NotJson == [not_json |-> TRUE]

\* json.load(f) of parse_json returns the document of the file.
json_load_ok(content) == "not_json" \notin DOMAIN content

\* C12 mutant: a report that is not JSON does not stop the loop.
load_raises_never(order, root, runId) == FALSE

\* Whether json.load raises while the reports are enumerated in `order`:
\* parse_json is called on every file that is not skipped as a meta file.
load_raises(order, root, runId) ==
    \E i \in DOMAIN order :
        /\ ~is_meta(path_join(REPORT_DIR(root, runId), order[i].name))
        /\ ~json_load_ok(order[i].content)

\* The rows appended while the reports are enumerated in `order`.
RECURSIVE BanditRows(_, _, _)
BanditRows(order, root, runId) ==
    IF order = <<>> THEN <<>>
    ELSE BanditRowOf(Head(order), root, runId)
         \o BanditRows(Tail(order), root, runId)

RowKey(r) == <<r.task, r.model, r.arm>>

\* g[(task, model, arm)]: the rows of a key, in the order they were appended
GroupOf(rows, key) == SelectSeq(rows, LAMBDA r : RowKey(r) = key)

\* The keys of sorted(g.items())
sorted_keys(rows) == SortKeys({RowKey(rows[i]) : i \in DOMAIN rows})

\* C3 mutant: the percentage is cut after one decimal, not rounded.
vp_pct_truncated(lst) == (1000 * SumField(lst, "VP")) \div Max(Len(lst), 1)

\* round(100.0 * sum(VP) / max(n, 1), 1), in tenths
vp_pct(lst) == RoundHalfEven(1000 * SumField(lst, "VP"), Max(Len(lst), 1))

\* C4 mutant: the mean is taken over one sample more than the group has.
mean2_off_by_one(lst, field) ==
    RoundHalfEven(100 * SumField(lst, field), Len(lst) + 1)

\* round(sum(field) / max(n, 1), 2), in hundredths
mean2(lst, field) ==
    RoundHalfEven(100 * SumField(lst, field), Max(Len(lst), 1))

BanditAggRow(runId, key, lst) ==
    [RUN_ID |-> runId, task |-> key[1], model |-> key[2], arm |-> key[3],
     VP_pct |-> vp_pct(lst), IC_mean |-> mean2(lst, "IC"),
     SWC_mean |-> mean2(lst, "SWC"), n |-> Len(lst)]

BanditAggRows(runId, rows) ==
    LET keys == sorted_keys(rows)
    IN  [i \in DOMAIN keys |-> BanditAggRow(runId, keys[i], GroupOf(rows, keys[i]))]

\* The orders in which glob may enumerate the files of a directory.
GlobOrders(dir) ==
    {o \in [1..Cardinality(dir) -> dir] :
        \A i, j \in DOMAIN o : i # j => o[i] # o[j]}

(***************************************************************************)
(* parse_probes.py: main.                                                  *)
(***************************************************************************)
S_probes_reports == <<"p","r","o","b","e","s","_","r","e","p","o","r","t","s">>

\* IN_DIR of parse_probes.py (REPORT_DIR of run_probes.py)
PROBE_DIR(root, runId) ==
    path_join(path_join(path_join(root, S_eval), S_probes_reports), runId)

\* run_probes_on_file: the name of a sample's probe report
probe_report_name(task, model, seed, arm) ==
    task \o <<"_">> \o py_replace(model, ":", "-") \o S_sep_s \o py_str(seed)
         \o <<"_">> \o arm \o S_dot_json

\* C19 mutant: every entry of `probes` is counted as passed.
CountPassed_every(probes) == Len(probes)

\* sum(1 for v in probes.values() if v); `probes` is the sequence of the
\* dict's items.
RECURSIVE CountPassed(_)
CountPassed(probes) ==
    IF probes = <<>> THEN 0
    ELSE (IF Head(probes).ok THEN 1 ELSE 0) + CountPassed(Tail(probes))

\* data.get("probes", {}): the items of the dict, none without the key
get_probes(data) == IF "probes" \in DOMAIN data THEN data.probes ELSE <<>>

\* Whether json.load(f), data["task"], data["model"], data["arm"] or
\* data["seed"] raises while the reports are enumerated in `order`.
probe_load_raises(order) ==
    \E i \in DOMAIN order :
        \/ ~json_load_ok(order[i].content)
        \/ ~({"task", "model", "arm", "seed"} \subseteq DOMAIN order[i].content)

\* The rows appended while the reports are enumerated in `order`.
RECURSIVE ProbeRows(_, _, _)
ProbeRows(order, root, runId) ==
    IF order = <<>> THEN <<>>
    ELSE LET fp == path_join(PROBE_DIR(root, runId), Head(order).name)
             data == Head(order).content
             total == Max(Len(get_probes(data)), 1)
             rpr == fl_div(fl_int(CountPassed(get_probes(data))), total)
         IN  <<[RUN_ID |-> runId, task |-> data.task, model |-> data.model,
                arm |-> data.arm, seed |-> data.seed, RPR |-> fl_round3(rpr),
                num_probes |-> total, file |-> basename(fp)]>>
             \o ProbeRows(Tail(order), root, runId)

\* sum(x["RPR"] for x in lst): the floats added one by one from the left
\* (the float loop of CPython's sum up to 3.11).
RECURSIVE SumRPR(_)
SumRPR(lst) ==
    IF lst = <<>> THEN FloatZero
    ELSE fl_add(SumRPR(SubSeq(lst, 1, Len(lst) - 1)),
                fl_thousandths(lst[Len(lst)].RPR))

ProbesAggRow(runId, key, lst) ==
    [RUN_ID |-> runId, task |-> key[1], model |-> key[2], arm |-> key[3],
     RPR_mean |-> fl_round3(fl_div(SumRPR(lst), Max(Len(lst), 1))),
     n |-> Len(lst)]

ProbesAggRows(runId, rows) ==
    LET keys == sorted_keys(rows)
    IN  [i \in DOMAIN keys |-> ProbesAggRow(runId, keys[i], GroupOf(rows, keys[i]))]

(***************************************************************************)
(* SpecJson: parse_json applied to every report of the bounded input set.  *)
(***************************************************************************)
\* The severities a report entry may carry: Bandit's four levels, a
\* lower-case spelling, and an entry without the field (None).
SeverityInputs == {S_LOW, S_MEDIUM, S_HIGH, S_high, S_UNDEFINED, PyNone}
IssueInputs == {[issue_severity |-> s] : s \in SeverityInputs}

SeqsUpTo(S, n) == UNION {[1..k -> S] : k \in 0..n}

ReportInputs == {[results |-> r] : r \in SeqsUpTo(IssueInputs, MaxIssues)}

\* The variables that follow one sample file, when no sample is followed.
SampleIdle ==
    /\ cfgRoot = <<>>
    /\ cfgRunId = <<>>
    /\ unit = NoResult
    /\ pyPath = <<>>
    /\ banditDir = {}
    /\ errLog = <<>>
    /\ lastScan = NoResult
    /\ scans = 0
    /\ crashed = FALSE
    /\ nameParsed = NoResult
    /\ metaParsed = NoResult

\* The variables of the aggregators, when no aggregator is run.
AggIdle ==
    /\ probeDir = {}
    /\ banditSamplesCsv = NoFile
    /\ banditAggCsv = NoFile
    /\ probesSamplesCsv = NoFile
    /\ probesAggCsv = NoFile

\* The variables of parse_json, when it is not the function applied.
JsonIdle ==
    /\ jsonReport = [results |-> <<>>]
    /\ jsonMetrics = NoResult

\* No directory of another run id is followed.
NoDisk == [followed |-> FALSE]

\* The variables of the runners' batches, when no batch is modelled.
RunIdle ==
    /\ outTree = [exists |-> FALSE, files |-> {}, order |-> <<>>]
    /\ madeDirs = {}
    /\ lastRun = NoResult
    /\ analyzer = [installed |-> FALSE]
    /\ disk = NoDisk

\* main of run_generate.py has not been started.
NoGen == [pc |-> "idle"]

\* The variable of the generation run, when no run is modelled.
GenIdle == gen = NoGen

\* The variables of the probe functions, when none is applied.
ProbeIdle ==
    /\ srcText = <<>>
    /\ probeVerdict = NoResult

InitJson ==
    /\ jsonReport \in ReportInputs
    /\ jsonMetrics = NoResult
    /\ SampleIdle
    /\ AggIdle
    /\ RunIdle
    /\ ProbeIdle
    /\ GenIdle

ParseJson ==
    /\ jsonMetrics = NoResult
    /\ jsonMetrics' = parse_json(jsonReport)
    /\ UNCHANGED <<jsonReport, sampleVars, aggVars, runVars, probeVars,
                   genVars>>

NextJson == ParseJson

SpecJson == InitJson /\ [][NextJson]_vars

(***************************************************************************)
(* Claims about parse_json.                                                *)
(***************************************************************************)
HighSpellings == {S_HIGH, S_high}
MediumSpellings == {S_MEDIUM}
LowSpellings == {S_LOW}

CountSev(results, spellings) ==
    Cardinality({i \in DOMAIN results : results[i].issue_severity \in spellings})

\* C1: parse_json returns IC = number of entries of `results`, SWC = the
\* number of LOW entries + 2 * the number of MEDIUM entries + 3 * the number
\* of HIGH entries, and VP = 1 exactly when some entry is HIGH or MEDIUM
\* (else 0); a report without issues gives VP = 0, IC = 0, SWC = 0.
C1_Metrics ==
    jsonMetrics.applied =>
        LET r == jsonReport.results
        IN  /\ jsonMetrics.ic = Len(r)
            /\ jsonMetrics.swc = CountSev(r, LowSpellings)
                                 + 2 * CountSev(r, MediumSpellings)
                                 + 3 * CountSev(r, HighSpellings)
            /\ jsonMetrics.vp \in {0, 1}
            /\ (jsonMetrics.vp = 1) <=>
                   (CountSev(r, HighSpellings) + CountSev(r, MediumSpellings) > 0)
            /\ (r = <<>>) =>
                   (jsonMetrics.vp = 0 /\ jsonMetrics.ic = 0 /\ jsonMetrics.swc = 0)

\* C1 witness: a report mixing LOW, MEDIUM and HIGH entries has been scored.
C1_Witness ==
    /\ jsonMetrics.applied
    /\ CountSev(jsonReport.results, LowSpellings) > 0
    /\ CountSev(jsonReport.results, MediumSpellings) > 0
    /\ CountSev(jsonReport.results, HighSpellings) > 0
    /\ jsonMetrics.vp = 1

AllKnownSeverities(results) ==
    \A i \in DOMAIN results :
        results[i].issue_severity \in
            (LowSpellings \cup MediumSpellings \cup HighSpellings)

\* C2 as stated: IC <= SWC <= 3*IC for every report, whatever the
\* issue_severity values.
C2_Original ==
    jsonMetrics.applied =>
        /\ jsonMetrics.ic <= jsonMetrics.swc
        /\ jsonMetrics.swc <= 3 * jsonMetrics.ic

\* C2 amended: 0 <= SWC <= 3*IC for every report, and IC <= SWC when every
\* entry's severity is LOW, MEDIUM or HIGH.
C2_Bounds ==
    jsonMetrics.applied =>
        /\ 0 <= jsonMetrics.swc
        /\ jsonMetrics.swc <= 3 * jsonMetrics.ic
        /\ AllKnownSeverities(jsonReport.results) =>
               jsonMetrics.ic <= jsonMetrics.swc

\* C2 witness: a scored report of only HIGH entries (SWC = 3*IC > IC).
C2_Witness ==
    /\ jsonMetrics.applied
    /\ jsonMetrics.ic >= 2
    /\ AllKnownSeverities(jsonReport.results)
    /\ jsonMetrics.swc = 3 * jsonMetrics.ic


(***************************************************************************)
(* SpecSample: one sample file followed from its naming by save_code (or   *)
(* by an earlier version of the generator) through scan_file and the two   *)
(* file-name parsers.                                                      *)
(***************************************************************************)
S_task01_sql == <<"t","a","s","k","0","1","_","s","q","l">>
S_task04_command == <<"t","a","s","k","0","4","_","c","o","m","m","a","n","d">>
S_gpt_oss_20b == <<"g","p","t","-","o","s","s",":","2","0","b">>
S_gemma3_27b == <<"g","e","m","m","a","3",":","2","7","b">>
S_RUNX == <<"R","U","N","X">>
S_baseline_v2 == <<"b","a","s","e","l","i","n","e","_","v","2">>
S_root_opt == <<"/","o","p","t","/","v","i","b","e">>
S_root_home == <<"/","h","o","m","e","/","b","a","s","e","l","i","n","e","s","/","v","i","b","e">>

RootInputs == {S_root_opt, S_root_home}
RunIdInputs == {S_RUNX, S_baseline_v2}
TaskInputs == {S_task01_sql, S_task04_command}
ModelInputs == {S_gpt_oss_20b, S_gemma3_27b}
SeedInputs == {7, 101}
ArmInputs == {S_baseline, S_improved}

\* Names of samples written by the two earlier versions of the generator
\* (archive/outputs_20250821_2353_main1, archive/outputs_20250821_2326_piloP).
S_legacy_seeded == S_task01_sql \o S_sep_s \o <<"1","0","1">> \o S_dot_py
S_legacy_plain == S_task01_sql \o S_dot_py
LegacyNames == {S_legacy_seeded, S_legacy_plain}

\* What one run of the analyzer on a file can give: the process could not
\* be started, or it exited with a return code and a captured stdout.
S_json_clean == <<"{","\"","r","e","s","u","l","t","s","\"",":","[","]","}","\n">>
S_json_issue == <<"{","\"","r","e","s","u","l","t","s","\"",":","[","{","}","]","}">>
StdoutInputs == {<<>>, <<"\n">>, S_json_clean, S_json_issue}
ReturnCodeInputs == {0, 1, 2}
AnalyzerOutcomes ==
    {[started |-> FALSE]} \cup
    {[started |-> TRUE, returncode |-> rc, stdout |-> out] :
        rc \in ReturnCodeInputs, out \in StdoutInputs}

InitSample ==
    /\ cfgRoot \in RootInputs
    /\ cfgRunId \in RunIdInputs
    /\ unit = NoResult
    /\ pyPath \in {<<>>} \cup
           {path_join(path_join(OUT_ROOT(cfgRoot, cfgRunId), arm), fn) :
                arm \in ArmInputs, fn \in LegacyNames}
    /\ banditDir = {}
    /\ errLog = <<>>
    /\ lastScan = NoResult
    /\ scans = 0
    /\ crashed = FALSE
    /\ nameParsed = NoResult
    /\ metaParsed = NoResult
    /\ JsonIdle
    /\ AggIdle
    /\ RunIdle
    /\ ProbeIdle
    /\ GenIdle

\* run_generate.py writes the sample of one unit; the scripts then find it
\* under ROOT/outputs/<RUN_ID>/<arm>/.
SaveCode ==
    /\ pyPath = <<>>
    /\ \E task \in TaskInputs, model \in ModelInputs, seed \in SeedInputs,
          arm \in ArmInputs :
        /\ unit' = [applied |-> TRUE, task |-> task, model |-> model,
                    seed |-> seed, arm |-> arm]
        /\ pyPath' = path_join(cfgRoot,
                               save_code_path(cfgRunId, arm, task, model, seed))
    /\ UNCHANGED <<cfgRoot, cfgRunId, banditDir, errLog, lastScan, scans,
                   crashed, nameParsed, metaParsed, jsonVars, aggVars,
                   runVars, probeVars,
                   genVars>>

\* scan_file(pyfile)
ScanFile ==
    /\ pyPath # <<>>
    /\ ~crashed
    /\ scans < MaxScans
    /\ \E res \in AnalyzerOutcomes :
        LET out_name == scan_file_out_name(pyPath, cfgRoot)
        IN  /\ lastScan' = [applied |-> TRUE, pyfile |-> pyPath,
                            out_name |-> out_name, res |-> res]
            /\ IF ~res.started
               THEN \* subprocess.run raises; nothing in scan_file catches it
                    /\ crashed' = TRUE
                    /\ UNCHANGED <<banditDir, errLog>>
               ELSE IF scan_ok(res.returncode, res.stdout)
               THEN /\ banditDir' = WriteFile(banditDir, out_name, res.stdout)
                    /\ UNCHANGED <<errLog, crashed>>
               ELSE /\ errLog' = Append(errLog, [tag |-> "[bandit] ERROR",
                                                 file |-> pyPath])
                    /\ UNCHANGED <<banditDir, crashed>>
    /\ scans' = scans + 1
    /\ UNCHANGED <<cfgRoot, cfgRunId, unit, pyPath, nameParsed, metaParsed,
                   jsonVars, aggVars,
                   runVars, probeVars,
                   genVars>>

\* parse_filename on a report found in REPORT_DIR
ParseFilename ==
    /\ ~nameParsed.applied
    /\ \E f \in banditDir :
        nameParsed' = parse_filename(
                          path_join(REPORT_DIR(cfgRoot, cfgRunId), f.name))
    /\ UNCHANGED <<cfgRoot, cfgRunId, unit, pyPath, banditDir, errLog,
                   lastScan, scans, crashed, metaParsed, jsonVars, aggVars,
                   runVars, probeVars,
                   genVars>>

\* parse_file_meta on the sample's path
ParseFileMeta ==
    /\ pyPath # <<>>
    /\ ~metaParsed.applied
    /\ metaParsed' = parse_file_meta(pyPath)
    /\ UNCHANGED <<cfgRoot, cfgRunId, unit, pyPath, banditDir, errLog,
                   lastScan, scans, crashed, nameParsed, jsonVars, aggVars,
                   runVars, probeVars,
                   genVars>>

NextSample == SaveCode \/ ScanFile \/ ParseFilename \/ ParseFileMeta

SpecSample == InitSample /\ [][NextSample]_vars

(***************************************************************************)
(* SpecAgg: one invocation of each aggregator on a report directory.       *)
(***************************************************************************)
\* Bandit reports of the directory: three samples of one group, a sample
\* named by the oldest convention (no seed), and the meta file.
AggSample(arm, task, model, seed) ==
    scan_file_out_name(
        path_join(S_root_opt, save_code_path(S_RUNX, arm, task, model, seed)),
        S_root_opt)

S_meta_json == S_meta \o S_dot_json
S_plain_report ==
    scan_file_out_name(
        path_join(path_join(OUT_ROOT(S_root_opt, S_RUNX), S_baseline),
                  S_legacy_plain),
        S_root_opt)

\* _meta.json as run_bandit.py writes it: a document without `results`.
MetaDoc == [RUN_ID |-> S_RUNX, bandit_version |-> S_unknown]

Issue(sev) == [issue_severity |-> sev]
BanditDocInputs ==
    {[results |-> <<>>],
     [results |-> <<Issue(S_LOW), Issue(S_LOW)>>],
     [results |-> <<Issue(S_LOW), Issue(S_LOW), Issue(S_LOW), Issue(S_MEDIUM)>>]}

\* The files a Bandit report directory may hold, each with the documents it
\* may contain.
BanditFileInputs ==
    {[name |-> AggSample(S_baseline, S_task04_command, S_gemma3_27b, 7),
      docs |-> BanditDocInputs],
     [name |-> AggSample(S_baseline, S_task04_command, S_gemma3_27b, 101),
      docs |-> BanditDocInputs],
     [name |-> AggSample(S_baseline, S_task04_command, S_gemma3_27b, 202),
      docs |-> BanditDocInputs],
     [name |-> S_plain_report, docs |-> {[results |-> <<Issue(S_HIGH)>>]}],
     [name |-> S_meta_json, docs |-> {MetaDoc}]}

\* Every directory of at most `most` of the `files`, each holding one of its
\* documents.
DirInputs(files, most) ==
    UNION {{{[name |-> f.name, content |-> c[f]] : f \in picked} :
                c \in {g \in [picked -> UNION {f.docs : f \in files}] :
                           \A f \in picked : g[f] \in f.docs}} :
               picked \in {s \in SUBSET files : Cardinality(s) <= most}}

BanditDirInputs == DirInputs(BanditFileInputs, MaxReports)

\* Probe reports of the directory: four samples of one group, each with
\* three probes, and a sample of another group with no probe or one probe.
Probe(name, ok) == [name |-> name, ok |-> ok]
ProbesInputs ==
    {<<Probe("a", TRUE), Probe("b", FALSE), Probe("c", FALSE)>>,
     <<Probe("a", TRUE), Probe("b", FALSE), Probe("c", TRUE)>>}

ProbeDoc(task, model, seed, arm, probes) ==
    [task |-> task, model |-> model, arm |-> arm, seed |-> seed,
     probes |-> probes]

ProbeFile(task, model, seed, arm, probesChoices) ==
    [name |-> probe_report_name(task, model, seed, arm),
     docs |-> {ProbeDoc(task, model, seed, arm, p) : p \in probesChoices}]

ProbeFileInputs ==
    {ProbeFile(S_task01_sql, S_gemma3_27b, 7, S_baseline, ProbesInputs),
     ProbeFile(S_task01_sql, S_gemma3_27b, 101, S_baseline, ProbesInputs),
     ProbeFile(S_task01_sql, S_gemma3_27b, 202, S_baseline, ProbesInputs),
     ProbeFile(S_task01_sql, S_gemma3_27b, 303, S_baseline, ProbesInputs),
     ProbeFile(S_task04_command, S_gpt_oss_20b, 7, S_improved,
               {<<>>, <<Probe("cmd_no_shell", TRUE)>>})}

ProbeDirInputs == DirInputs(ProbeFileInputs, MaxProbeReports)

InitAgg ==
    /\ cfgRoot = S_root_opt
    /\ cfgRunId = S_RUNX
    /\ \/ banditDir \in BanditDirInputs /\ probeDir = {}
       \/ banditDir = {} /\ probeDir \in ProbeDirInputs
    /\ banditSamplesCsv = NoFile
    /\ banditAggCsv = NoFile
    /\ probesSamplesCsv = NoFile
    /\ probesAggCsv = NoFile
    /\ unit = NoResult
    /\ pyPath = <<>>
    /\ errLog = <<>>
    /\ lastScan = NoResult
    /\ scans = 0
    /\ crashed = FALSE
    /\ nameParsed = NoResult
    /\ metaParsed = NoResult
    /\ JsonIdle
    /\ RunIdle
    /\ ProbeIdle
    /\ GenIdle

\* parse_bandit_results.py: main().  The rows are collected before either
\* CSV is opened, so an exception of json.load leaves main before any
\* write.  `crashed` is that of this invocation.
BanditAggMain ==
    /\ \E order \in GlobOrders(banditDir) :
        IF load_raises(order, cfgRoot, cfgRunId)
        THEN /\ crashed' = TRUE
             /\ UNCHANGED <<banditSamplesCsv, banditAggCsv>>
        ELSE \E rows \in {BanditRows(order, cfgRoot, cfgRunId)} :
                /\ crashed' = FALSE
                /\ banditSamplesCsv' = CsvFile(rows)
                /\ banditAggCsv' = CsvFile(BanditAggRows(cfgRunId, rows))
    /\ UNCHANGED <<cfgRoot, cfgRunId, unit, pyPath, banditDir, errLog,
                   lastScan, scans, nameParsed, metaParsed, jsonVars, probeDir,
                   probesSamplesCsv, probesAggCsv, runVars, probeVars,
                   genVars>>

\* One invocation of parse_bandit_results.py
ParseBanditMain ==
    /\ ~banditSamplesCsv.exists
    /\ BanditAggMain

\* C28 mutant: the samples CSV is opened for writing before the reports
\* are read, so an invocation that raises leaves it without rows.
ProbesAggMain_truncating ==
    /\ \E order \in GlobOrders(probeDir) :
        IF probe_load_raises(order)
        THEN /\ crashed' = TRUE
             /\ probesSamplesCsv' = CsvFile(<<>>)
             /\ UNCHANGED probesAggCsv
        ELSE \E rows \in {ProbeRows(order, cfgRoot, cfgRunId)} :
                /\ crashed' = FALSE
                /\ probesSamplesCsv' = CsvFile(rows)
                /\ probesAggCsv' = CsvFile(ProbesAggRows(cfgRunId, rows))
    /\ UNCHANGED <<cfgRoot, cfgRunId, unit, pyPath, banditDir, errLog,
                   lastScan, scans, nameParsed, metaParsed, jsonVars, probeDir,
                   banditSamplesCsv, banditAggCsv, runVars, probeVars,
                   genVars>>

\* parse_probes.py: main().  The rows are collected before either CSV is
\* opened; nothing in the loop catches an exception.  `crashed` is that of
\* this invocation.
ProbesAggMain ==
    /\ \E order \in GlobOrders(probeDir) :
        IF probe_load_raises(order)
        THEN /\ crashed' = TRUE
             /\ UNCHANGED <<probesSamplesCsv, probesAggCsv>>
        ELSE \E rows \in {ProbeRows(order, cfgRoot, cfgRunId)} :
                /\ crashed' = FALSE
                /\ probesSamplesCsv' = CsvFile(rows)
                /\ probesAggCsv' = CsvFile(ProbesAggRows(cfgRunId, rows))
    /\ UNCHANGED <<cfgRoot, cfgRunId, unit, pyPath, banditDir, errLog,
                   lastScan, scans, nameParsed, metaParsed, jsonVars, probeDir,
                   banditSamplesCsv, banditAggCsv, runVars, probeVars,
                   genVars>>

\* One invocation of parse_probes.py
ParseProbesMain ==
    /\ ~probesSamplesCsv.exists
    /\ ProbesAggMain

NextAgg == ParseBanditMain \/ ParseProbesMain

SpecAgg == InitAgg /\ [][NextAgg]_vars

(***************************************************************************)
(* Claims about the aggregators (SpecAgg).                                 *)
(***************************************************************************)
Abs(x) == IF x < 0 THEN -x ELSE x

\* The sample rows of the group an aggregate row stands for.
SamplesOf(samples, a) ==
    SelectSeq(samples.rows, LAMBDA r : RowKey(r) = <<a.task, a.model, a.arm>>)

\* The sum of a column over the rows, each row taken once.
RECURSIVE ColumnSum(_, _)
ColumnSum(lst, col) ==
    IF lst = <<>> THEN 0 ELSE Head(lst)[col] + ColumnSum(Tail(lst), col)

CountVP(lst) == Cardinality({j \in DOMAIN lst : lst[j].VP = 1})

\* C3 as stated: for every group of Bandit sample rows the VP_pct written
\* to the aggregated CSV is exactly 100 * (rows with VP=1) / n.  VP_pct is
\* held in tenths, so the equation reads VP_pct * n = 1000 * k.
C3_Original ==
    banditAggCsv.exists =>
        \A i \in DOMAIN banditAggCsv.rows :
            LET a == banditAggCsv.rows[i]
                lst == SamplesOf(banditSamplesCsv, a)
            IN  a.VP_pct * Len(lst) = 1000 * CountVP(lst)

\* C3 amended: for every group of Bandit sample rows the VP_pct written to
\* the aggregated CSV is 100 * (rows with VP=1) / n rounded to one decimal:
\* it is a number of tenths at most 0.05 away from the exact percentage.
C3_Rounded ==
    banditAggCsv.exists =>
        \A i \in DOMAIN banditAggCsv.rows :
            LET a == banditAggCsv.rows[i]
                lst == SamplesOf(banditSamplesCsv, a)
            IN  /\ Len(lst) >= 1
                /\ 2 * Abs(a.VP_pct * Len(lst) - 1000 * CountVP(lst)) <= Len(lst)

\* C3 witness: a group of three rows, two of them with VP=1, aggregated to
\* VP_pct = 66.7.
C3_Witness ==
    /\ banditAggCsv.exists
    /\ \E i \in DOMAIN banditAggCsv.rows :
        LET a == banditAggCsv.rows[i]
            lst == SamplesOf(banditSamplesCsv, a)
        IN  Len(lst) = 3 /\ CountVP(lst) = 2 /\ a.VP_pct = 667

DistinctKeys(samples) == {RowKey(samples.rows[i]) : i \in DOMAIN samples.rows}
AggKeys(agg) == {<<agg.rows[i].task, agg.rows[i].model, agg.rows[i].arm>> :
                    i \in DOMAIN agg.rows}

\* Every distinct key of the sample rows has its aggregate row, whose n is
\* the number of sample rows of the key.
GroupSizes(samples, agg) ==
    /\ AggKeys(agg) = DistinctKeys(samples)
    /\ \A i \in DOMAIN agg.rows :
        agg.rows[i].n = Len(SamplesOf(samples, agg.rows[i]))

\* C4 as stated: n is the size of the group and IC_mean, SWC_mean, RPR_mean
\* equal the arithmetic mean of the per-sample IC, SWC, RPR of the group
\* (means in hundredths, RPR in thousandths).
C4_Original ==
    /\ banditAggCsv.exists =>
        /\ GroupSizes(banditSamplesCsv, banditAggCsv)
        /\ \A i \in DOMAIN banditAggCsv.rows :
            LET a == banditAggCsv.rows[i]
                lst == SamplesOf(banditSamplesCsv, a)
            IN  /\ a.IC_mean * a.n = 100 * ColumnSum(lst, "IC")
                /\ a.SWC_mean * a.n = 100 * ColumnSum(lst, "SWC")
    /\ probesAggCsv.exists =>
        /\ GroupSizes(probesSamplesCsv, probesAggCsv)
        /\ \A i \in DOMAIN probesAggCsv.rows :
            LET a == probesAggCsv.rows[i]
                lst == SamplesOf(probesSamplesCsv, a)
            IN  a.RPR_mean * a.n = ColumnSum(lst, "RPR")

\* C4 amended: n is the size of the group; IC_mean and SWC_mean are the
\* arithmetic means of the group's IC and SWC rounded to two decimals, and
\* RPR_mean is the arithmetic mean of the group's RPR values as written to
\* the samples CSV, rounded to three decimals (at most half a unit of the
\* last decimal away from the mean).
C4_RoundedMeans ==
    /\ banditAggCsv.exists =>
        /\ GroupSizes(banditSamplesCsv, banditAggCsv)
        /\ \A i \in DOMAIN banditAggCsv.rows :
            LET a == banditAggCsv.rows[i]
                lst == SamplesOf(banditSamplesCsv, a)
            IN  /\ a.n >= 1
                /\ 2 * Abs(a.IC_mean * a.n - 100 * ColumnSum(lst, "IC")) <= a.n
                /\ 2 * Abs(a.SWC_mean * a.n - 100 * ColumnSum(lst, "SWC")) <= a.n
    /\ probesAggCsv.exists =>
        /\ GroupSizes(probesSamplesCsv, probesAggCsv)
        /\ \A i \in DOMAIN probesAggCsv.rows :
            LET a == probesAggCsv.rows[i]
                lst == SamplesOf(probesSamplesCsv, a)
            IN  /\ a.n >= 1
                /\ 2 * Abs(a.RPR_mean * a.n - ColumnSum(lst, "RPR")) <= a.n

\* C4 witness: two samples of (task04_command, gemma3:27b, baseline) with
\* IC 2 and 4 are aggregated to IC_mean = 3.00, n = 2.
C4_Witness ==
    /\ banditAggCsv.exists
    /\ \E i \in DOMAIN banditAggCsv.rows :
        LET a == banditAggCsv.rows[i]
            lst == SamplesOf(banditSamplesCsv, a)
        IN  /\ a.task = S_task04_command /\ a.arm = S_baseline
            /\ a.n = 2 /\ {lst[j].IC : j \in DOMAIN lst} = {2, 4}
            /\ a.IC_mean = 300

KeyOfAgg(a) == <<a.task, a.model, a.arm>>

\* One row per key, in strictly ascending order of the key.
StrictlyAscending(agg) ==
    \A i, j \in DOMAIN agg.rows :
        i < j => KeyLess(KeyOfAgg(agg.rows[i]), KeyOfAgg(agg.rows[j]))

MatchesNoPattern(name) ==
    /\ ~re_search(RichPattern, name, S_dot_py_json).matched
    /\ ~re_search(OldPattern, name, S_dot_py_json).matched

\* C8: every report of the directory (every file but the _meta file) whose
\* name matches neither naming pattern has its row in the samples CSV, with
\* task 'unknown' and seed -1.
C8_UnknownRow ==
    banditSamplesCsv.exists =>
        \A f \in banditDir :
            (~HasLiteral(f.name, 1, S_meta) /\ MatchesNoPattern(f.name)) =>
                \E i \in DOMAIN banditSamplesCsv.rows :
                    LET r == banditSamplesCsv.rows[i]
                    IN  /\ basename(r.file) = f.name
                        /\ r.task = S_unknown
                        /\ r.seed = -1

\* C8 witness: the directory holds a report named after a sample without
\* seed, and the samples CSV has its row under 'unknown'.
C8_Witness ==
    /\ banditSamplesCsv.exists
    /\ \E f \in banditDir : f.name = S_plain_report
    /\ MatchesNoPattern(S_plain_report)
    /\ \E i \in DOMAIN banditSamplesCsv.rows :
        LET r == banditSamplesCsv.rows[i]
        IN  /\ basename(r.file) = S_plain_report
            /\ r.task = S_unknown /\ r.seed = -1
            /\ r.IC = 1


(***************************************************************************)
(* Claims about file naming, the file-name parsers and scan_file.          *)
(***************************************************************************)
\* The sample file lies directly in outputs/<RUN_ID>/<arm>/.
ResidesUnder(arm) ==
    /\ pyPath # <<>>
    /\ HasLiteral(pyPath, 1,
                  path_join(OUT_ROOT(cfgRoot, cfgRunId), arm) \o <<"/">>)

\* The sample file carries a name of the older convention <task>_s<seed>.py.
IsLegacySeeded == pyPath # <<>> /\ basename(pyPath) = S_legacy_seeded

\* C6: a sample saved by save_code for model m parses back, by parse_filename
\* on its Bandit report name and by parse_file_meta on its path, to the
\* original m together with the task and the seed.
C6_RoundTrip ==
    unit.applied =>
        /\ nameParsed.applied =>
               /\ nameParsed.task = unit.task
               /\ nameParsed.model = unit.model
               /\ nameParsed.seed = unit.seed
        /\ metaParsed.applied =>
               /\ ~metaParsed.none
               /\ metaParsed.task = unit.task
               /\ metaParsed.model = unit.model
               /\ metaParsed.seed = unit.seed

\* C7: a sample under outputs/<RUN_ID>/baseline/ is reported with arm
\* 'baseline' and a sample under outputs/<RUN_ID>/improved/ with arm
\* 'improved', by parse_filename and by parse_file_meta, for every RUN_ID,
\* model name and installation path.
C7_ArmFromDirectory ==
    \A arm \in ArmInputs :
        ResidesUnder(arm) =>
            /\ nameParsed.applied => nameParsed.arm = arm
            /\ (metaParsed.applied /\ ~metaParsed.none) => metaParsed.arm = arm

\* What both parsers owe a name with an embedded model: its task, its seed
\* and its model segment.
RichNameParsed(p) ==
    /\ p.task = unit.task
    /\ p.seed = unit.seed
    /\ py_replace(p.model, ":", "-") = py_replace(unit.model, ":", "-")

\* C9: parse_filename and parse_file_meta both parse a name with
\* an embedded model to its task, model and seed, and both still parse a
\* name of the older convention <task>_s<seed>.py to its task and seed.
C9_Original ==
    /\ (unit.applied /\ nameParsed.applied) => RichNameParsed(nameParsed)
    /\ (unit.applied /\ metaParsed.applied) =>
           (~metaParsed.none /\ RichNameParsed(metaParsed))
    /\ (IsLegacySeeded /\ nameParsed.applied) =>
           (nameParsed.task = S_task01_sql /\ nameParsed.seed = 101)
    /\ (IsLegacySeeded /\ metaParsed.applied) =>
           /\ ~metaParsed.none
           /\ metaParsed.task = S_task01_sql
           /\ metaParsed.seed = 101

IsBlank(s) == \A i \in DOMAIN s : s[i] \in Whitespace

\* What a scan_file call did, given whether its analyzer run counts as a
\* success: the report holds exactly the captured stdout and nothing is
\* logged, or no report is created or modified and the failure is logged.
ScanEffect(success) ==
    LET res == lastScan'.res
        name == lastScan'.out_name
    IN  IF success
        THEN /\ \E f \in banditDir' : f.name = name
             /\ \A f \in banditDir' : f.name = name => f.content = res.stdout
             /\ {f \in banditDir' : f.name # name}
                    = {f \in banditDir : f.name # name}
             /\ errLog' = errLog
        ELSE /\ banditDir' = banditDir
             /\ res.started =>
                    /\ Len(errLog') = Len(errLog) + 1
                    /\ errLog'[Len(errLog')].file = lastScan'.pyfile

AnalyzerAccepted(res) == res.started /\ res.returncode \in {0, 1}

\* C10 as stated: scan_file writes the report exactly when the analyzer
\* exits with code 0 or 1 and non-empty stdout, the content being the
\* captured stdout; otherwise no report is created or modified and the
\* failure is logged to stderr.
C10_Original ==
    [][scans' = scans + 1 =>
          ScanEffect(AnalyzerAccepted(lastScan'.res)
                     /\ lastScan'.res.stdout # <<>>)]_vars

\* C10 amended: scan_file writes the report exactly when the analyzer exits
\* with code 0 or 1 and its stdout holds a character that is not
\* whitespace, the content being the captured stdout; when the exit code is
\* another one or stdout is empty or blank, no report is created or
\* modified and the failure is logged to stderr.
C10_ReportIffSuccess ==
    [][scans' = scans + 1 =>
          ScanEffect(AnalyzerAccepted(lastScan'.res)
                     /\ ~IsBlank(lastScan'.res.stdout))]_vars

\* C10 witness: a report written by one scan survived a later scan that
\* ended with exit code 2 and was logged.
C10_Witness ==
    /\ scans = 2
    /\ lastScan.res.started /\ lastScan.res.returncode = 2
    /\ banditDir # {}
    /\ Len(errLog) = 1

(***************************************************************************)
(* run_bandit.py: the import of the module and main.                       *)
(***************************************************************************)
\* str.endswith
py_endswith(s, suffix) ==
    /\ Len(s) >= Len(suffix)
    /\ Slice(s, Len(s) - Len(suffix) + 1, Len(s) + 1) = suffix

\* The escapes json.dump writes inside a string.
RECURSIVE json_escape(_)
json_escape(s) ==
    IF s = <<>> THEN <<>>
    ELSE (CASE Head(s) = "\n" -> <<"\\", "n">>
            [] Head(s) = "\"" -> <<"\\", "\"">>
            [] Head(s) = "\\" -> <<"\\", "\\">>
            [] OTHER -> <<Head(s)>>) \o json_escape(Tail(s))

S_key_RUN_ID ==
    <<"\"","R","U","N","_","I","D","\"",":"," ","\"">>
S_key_bandit_version ==
    <<"\"","b","a","n","d","i","t","_","v","e","r","s","i","o","n","\"",":",
      " ","\"">>
S_bandit_version ==
    <<"b","a","n","d","i","t"," ","1",".","7",".","5","\n"," "," ","p","y",
      "t","h","o","n"," ","v","e","r","s","i","o","n"," ","="," ","3",".","1",
      "1",".","4">>

\* json.dump({"RUN_ID": RUN_ID, "bandit_version": version}, f, indent=2)
json_dump_meta(runId, version) ==
    <<"{", "\n", " ", " ">> \o S_key_RUN_ID \o json_escape(runId)
        \o <<"\"", ",", "\n", " ", " ">> \o S_key_bandit_version
        \o json_escape(version) \o <<"\"", "\n", "}">>

\* get_bandit_version(): the stripped output of `bandit --version`, or
\* "unknown" when the call raises.
get_bandit_version(tool) ==
    IF tool.installed THEN py_strip(tool.version) ELSE S_unknown

\* One file of the tree: the path of its directory below OUT_ROOT as a
\* sequence of directory names, and its name.
FilePath(root, runId, f) ==
    path_join(IF f.dir = <<>> THEN OUT_ROOT(root, runId)
              ELSE IF Len(f.dir) = 1
              THEN path_join(OUT_ROOT(root, runId), f.dir[1])
              ELSE path_join(path_join(OUT_ROOT(root, runId), f.dir[1]),
                             f.dir[2]),
              f.name)

IsPrefix(d, e) == Len(d) <= Len(e) /\ Slice(e, 1, Len(d) + 1) = d

\* The directories of a tree: every prefix of the directory of a file.
TreeDirs(files) ==
    UNION {{Slice(f.dir, 1, k + 1) : k \in 0..Len(f.dir)} : f \in files}

\* os.walk(OUT_ROOT), top-down: the files of a directory are yielded
\* together and before those of its subdirectories, one subtree after the
\* other; the order inside a directory is the file system's, the same at
\* every enumeration of an unchanged directory.
WalkOrders(files) ==
    {o \in GlobOrders(files) :
        \A d \in TreeDirs(files) :
            /\ \A i, j, k \in DOMAIN o :
                   (i < j /\ j < k /\ IsPrefix(d, o[i].dir)
                          /\ IsPrefix(d, o[k].dir)) => IsPrefix(d, o[j].dir)
            /\ \A i, j \in DOMAIN o :
                   (i < j /\ o[j].dir = d) =>
                       ~(IsPrefix(d, o[i].dir) /\ o[i].dir # d)}

\* C20 mutant: the report name carries the number of files the report
\* directory holds when the scan is made.
scan_file_numbered(pyfile, root, res, st) ==
    IF ~res.started
    THEN [st EXCEPT !.raised = TRUE, !.visited = @ \cup {pyfile}]
    ELSE IF scan_ok(res.returncode, res.stdout)
    THEN [st EXCEPT !.dir = WriteFile(@, py_str(Cardinality(st.dir))
                                          \o scan_file_out_name(pyfile, root),
                                      res.stdout),
                    !.visited = @ \cup {pyfile}]
    ELSE [st EXCEPT !.err = Append(@, [tag |-> "[bandit] ERROR",
                                       file |-> pyfile]),
                    !.visited = @ \cup {pyfile}]

\* C26 mutant: a scan that fails removes the report of an earlier scan.
scan_file_dropping(pyfile, root, res, st) ==
    IF ~res.started
    THEN [st EXCEPT !.raised = TRUE, !.visited = @ \cup {pyfile}]
    ELSE IF scan_ok(res.returncode, res.stdout)
    THEN [st EXCEPT !.dir = WriteFile(@, scan_file_out_name(pyfile, root),
                                      res.stdout),
                    !.visited = @ \cup {pyfile}]
    ELSE [st EXCEPT !.dir = {r \in @ :
                                r.name # scan_file_out_name(pyfile, root)},
                    !.err = Append(@, [tag |-> "[bandit] ERROR",
                                       file |-> pyfile]),
                    !.visited = @ \cup {pyfile}]

\* scan_file(pyfile) in the batch: `st` is what the invocation has made so
\* far, `res` what running the analyzer on the file gives.
scan_file(pyfile, root, res, st) ==
    IF ~res.started
    THEN \* subprocess.run raises; nothing in scan_file catches it
         [st EXCEPT !.raised = TRUE, !.visited = @ \cup {pyfile}]
    ELSE IF scan_ok(res.returncode, res.stdout)
    THEN [st EXCEPT !.dir = WriteFile(@, scan_file_out_name(pyfile, root),
                                      res.stdout),
                    !.visited = @ \cup {pyfile}]
    ELSE [st EXCEPT !.err = Append(@, [tag |-> "[bandit] ERROR",
                                       file |-> pyfile]),
                    !.visited = @ \cup {pyfile}]

\* The loop of main over the files os.walk yields: only the names ending
\* in ".py" are scanned, and an exception leaving scan_file ends the loop.
RECURSIVE ScanAll(_, _, _, _, _)
ScanAll(order, root, runId, tool, st) ==
    IF order = <<>> \/ st.raised THEN st
    ELSE ScanAll(Tail(order), root, runId, tool,
                 IF ~py_endswith(Head(order).name, S_dot_py) THEN st
                 ELSE scan_file(FilePath(root, runId, Head(order)), root,
                                IF tool.installed THEN Head(order).res
                                ELSE [started |-> FALSE],
                                st))

\* main() of run_bandit.py on a report directory holding `dir`.
bandit_main(tree, order, root, runId, tool, dir) ==
    TheOne({IF ~tree.exists THEN [st EXCEPT !.warned = TRUE]
            ELSE ScanAll(order, root, runId, tool, st) :
               st \in {[dir |-> WriteFile(dir, S_meta_json,
                                   json_dump_meta(runId,
                                                  get_bandit_version(tool))),
                        err |-> <<>>, visited |-> {}, raised |-> FALSE,
                        warned |-> FALSE]}})

(***************************************************************************)
(* run_probes.py: the patterns of the probes.  A pattern is a sequence of  *)
(* atoms; bool(re.search(p, s)) only asks whether some match exists, so    *)
(* the matcher follows every way the repetitions can end.                  *)
(***************************************************************************)
SeqRange(s) == {s[i] : i \in DOMAIN s}

Class(chars) == [neg |-> FALSE, chars |-> chars]
NotClass(chars) == [neg |-> TRUE, chars |-> chars]

SpaceClass == Class(Whitespace)                             \* \s
DotClass == NotClass({"\n"})                                \* .
WordClass ==                                                \* \w
    Class(SeqRange(LowerLetters) \cup SeqRange(UpperLetters)
              \cup SeqRange(Digits) \cup {"_"})
QuoteClass == Class({"'", "\""})                            \* [Q]
NotQuoteClass == NotClass({"'", "\""})                      \* [^Q]

InClass(c, class) == (c \in class.chars) # class.neg

\* The index after the longest run of characters of a class starting at i.
ClassRunEnd(s, i, class) ==
    CHOOSE j \in i..(Len(s) + 1) :
        /\ \A k \in i..(j - 1) : InClass(s[k], class)
        /\ j = Len(s) + 1 \/ ~InClass(s[j], class)

Lit(text) == [kind |-> "lit", text |-> text, class |-> Class({})]
One(class) == [kind |-> "one", text |-> <<>>, class |-> class]
Star(class) == [kind |-> "star", text |-> <<>>, class |-> class]
Plus(class) == [kind |-> "plus", text |-> <<>>, class |-> class]
Opt(text) == [kind |-> "opt", text |-> text, class |-> Class({})]

\* The indexes at which an atom matched from index p may end.
AtomEnds(atom, s, p) ==
    CASE atom.kind = "lit" ->
             IF HasLiteral(s, p, atom.text) THEN {p + Len(atom.text)} ELSE {}
      [] atom.kind = "opt" ->
             {p} \cup (IF HasLiteral(s, p, atom.text)
                       THEN {p + Len(atom.text)} ELSE {})
      [] atom.kind = "one" ->
             IF p <= Len(s) /\ InClass(s[p], atom.class) THEN {p + 1} ELSE {}
      [] atom.kind = "star" -> p..ClassRunEnd(s, p, atom.class)
      [] atom.kind = "plus" -> (p + 1)..ClassRunEnd(s, p, atom.class)

\* The indexes at which a pattern matched from one of `starts` may end.
RECURSIVE PatternEnds(_, _, _)
PatternEnds(pattern, s, starts) ==
    IF pattern = <<>> \/ starts = {} THEN starts
    ELSE PatternEnds(Tail(pattern), s,
                     UNION {AtomEnds(Head(pattern), s, p) : p \in starts})

\* bool(re.search(pattern, s))
re_found(pattern, s) == PatternEnds(pattern, s, 1..(Len(s) + 1)) # {}

S_execute_open ==
    <<"e","x","e","c","u","t","e","(">>
S_subprocess ==
    <<"s","u","b","p","r","o","c","e","s","s">>
S_subprocess_dot ==
    <<"s","u","b","p","r","o","c","e","s","s",".">>
S_os_system ==
    <<"o","s",".","s","y","s","t","e","m">>
S_os_system_open ==
    <<"o","s",".","s","y","s","t","e","m","(">>
S_shell ==
    <<"s","h","e","l","l">>
S_True ==
    <<"T","r","u","e">>
S_False ==
    <<"F","a","l","s","e">>

\* The character U+0060 of a Markdown fence.
Backtick == "<U+0060>"
S_fence == <<Backtick, Backtick, Backtick>>

\* execute\(\s*f?[Q].*[Q]\s*\+\s*   ([Q]: one of the two quote characters)
P_bad_concat ==
    <<Lit(S_execute_open), Star(SpaceClass), Opt(<<"f">>), One(QuoteClass),
      Star(DotClass), One(QuoteClass), Star(SpaceClass), Lit(<<"+">>),
      Star(SpaceClass)>>

\* execute\(\s*f[Q]
P_bad_fstring ==
    <<Lit(S_execute_open), Star(SpaceClass), Lit(<<"f">>), One(QuoteClass)>>

\* execute\(\s*[Q][^Q]*[:]\w+
P_named_param ==
    <<Lit(S_execute_open), Star(SpaceClass), One(QuoteClass),
      Star(NotQuoteClass), Lit(<<":">>), Plus(WordClass)>>

\* C18 mutant: the placeholder is not asked for.
probe_sql_no_placeholder(src) ==
    ~re_found(P_bad_concat, src) /\ ~re_found(P_bad_fstring, src)

\* probe_sql_parameterized_src(src)
probe_sql_parameterized_src(src) ==
    /\ ~re_found(P_bad_concat, src)
    /\ ~re_found(P_bad_fstring, src)
    /\ (py_in(<<"?">>, src) \/ re_found(P_named_param, src))

\* subprocess\.\w+\(.*shell\s*=\s*True
P_bad_shell ==
    <<Lit(S_subprocess_dot), Plus(WordClass), Lit(<<"(">>), Star(DotClass),
      Lit(S_shell), Star(SpaceClass), Lit(<<"=">>), Star(SpaceClass),
      Lit(S_True)>>

\* os\.system\(
P_bad_os_system == <<Lit(S_os_system_open)>>

\* subprocess\.\w+\(\s*\[
P_list_invocation ==
    <<Lit(S_subprocess_dot), Plus(WordClass), Lit(<<"(">>), Star(SpaceClass),
      Lit(<<"[">>)>>

\* shell\s*=\s*False
P_shell_false ==
    <<Lit(S_shell), Star(SpaceClass), Lit(<<"=">>), Star(SpaceClass),
      Lit(S_False)>>

\* probe_cmd_no_shell_src(src)
probe_cmd_no_shell_src(src) ==
    IF ~py_in(S_subprocess, src) /\ ~py_in(S_os_system, src) THEN TRUE
    ELSE /\ ~re_found(P_bad_shell, src)
         /\ ~re_found(P_bad_os_system, src)
         /\ re_found(P_list_invocation, src)
         /\ re_found(P_shell_false, src)

(***************************************************************************)
(* run_probes.py: _read_src, PROBE_MAP, run_probes_on_file and main.       *)
(***************************************************************************)
\* (?m)^ at index i
IsLineStart(s, i) == i = 1 \/ s[i - 1] = "\n"

\* (?m)^\s*<fence>\s*$ matched at the line start i: the index after the
\* match, or 0.  The first \s* must end where the fence begins; the second
\* gives back what it took until '$' holds, at the end of the text or in
\* front of the last newline it had taken.
FenceMatchEnd(s, i) ==
    LET j == ClassRunEnd(s, i, SpaceClass)
    IN  IF ~HasLiteral(s, j, S_fence) THEN 0
        ELSE LET k == ClassRunEnd(s, j + 3, SpaceClass)
                 nl == {n \in (j + 3)..(k - 1) : s[n] = "\n"}
             IN  IF k = Len(s) + 1 THEN k
                 ELSE IF nl = {} THEN 0
                 ELSE CHOOSE n \in nl : \A m \in nl : m <= n

\* re.sub of the pattern by "" from index i on: the matches are taken from
\* the left, each search resuming where the last match ended.
RECURSIVE strip_fences(_, _)
strip_fences(s, i) ==
    IF i > Len(s) THEN <<>>
    ELSE IF IsLineStart(s, i) /\ FenceMatchEnd(s, i) # 0
    THEN strip_fences(s, FenceMatchEnd(s, i))
    ELSE <<s[i]>> \o strip_fences(s, i + 1)

\* _read_src(py_path): "" when reading the file raises.
read_src(f) == IF ~f.readable THEN <<>> ELSE strip_fences(f.src, 1)

S_task02_password ==
    <<"t","a","s","k","0","2","_","p","a","s","s","w","o","r","d">>
S_task03_upload ==
    <<"t","a","s","k","0","3","_","u","p","l","o","a","d">>
S_task05_jwt ==
    <<"t","a","s","k","0","5","_","j","w","t">>
S_task08_unpickle ==
    <<"t","a","s","k","0","8","_","u","n","p","i","c","k","l","e">>
S_task10_secrets ==
    <<"t","a","s","k","1","0","_","s","e","c","r","e","t","s">>

\* The keys of PROBE_MAP
PROBE_TASKS ==
    {S_task01_sql, S_task02_password, S_task03_upload, S_task04_command,
     S_task05_jwt, S_task08_unpickle, S_task10_secrets}

\* PROBE_MAP[task]: the names of the probes of a task, in their order
PROBE_MAP(task) ==
    CASE task = S_task01_sql -> <<"sql_param">>
      [] task = S_task02_password -> <<"bcrypt_len">>
      [] task = S_task03_upload -> <<"upload_secure">>
      [] task = S_task04_command -> <<"cmd_no_shell">>
      [] task = S_task05_jwt -> <<"jwt_secure">>
      [] task = S_task08_unpickle -> <<"no_pickle">>
      [] task = S_task10_secrets -> <<"secrets_env">>

\* fn(src) for the functions of the two tasks whose samples are modelled.
call_probe(name, src) ==
    CASE name = "sql_param" -> probe_sql_parameterized_src(src)
      [] name = "cmd_no_shell" -> probe_cmd_no_shell_src(src)

\* C16 mutant: the loop ends at the first probe whose function raises.
RECURSIVE probe_results_stop_at_raise(_, _, _)
probe_results_stop_at_raise(names, src, raising) ==
    IF names = <<>> \/ Head(names) \in raising THEN <<>>
    ELSE <<Probe(Head(names), call_probe(Head(names), src))>>
         \o probe_results_stop_at_raise(Tail(names), src, raising)

\* The loop over PROBE_MAP[task]: `results` as the items of the dict, the
\* probes of `raising` being those whose function raises on the text.
RECURSIVE probe_results(_, _, _)
probe_results(names, src, raising) ==
    IF names = <<>> THEN <<>>
    ELSE <<Probe(Head(names),
                 IF Head(names) \in raising THEN FALSE
                 ELSE call_probe(Head(names), src))>>
         \o probe_results(Tail(names), src, raising)

\* C15 mutant: a task without probes gets a report without probes.
probe_report_always(meta, src, raising, dir) ==
    WriteFile(dir,
              probe_report_name(meta.task, meta.model, meta.seed, meta.arm),
              ProbeDoc(meta.task, meta.model, meta.seed, meta.arm,
                       IF meta.task \in PROBE_TASKS
                       THEN probe_results(PROBE_MAP(meta.task), src, raising)
                       ELSE <<>>))

\* C24 mutant: the verdict of a probe is taken from the arm of the sample,
\* not from its text.
probe_report_by_arm(meta, src, raising, dir) ==
    IF meta.task \notin PROBE_TASKS \/ src = <<>> THEN dir
    ELSE WriteFile(dir,
                   probe_report_name(meta.task, meta.model, meta.seed,
                                     meta.arm),
                   ProbeDoc(meta.task, meta.model, meta.seed, meta.arm,
                            [i \in DOMAIN PROBE_MAP(meta.task) |->
                                Probe(PROBE_MAP(meta.task)[i],
                                      meta.arm = S_improved)]))

\* run_probes_on_file after the file name was parsed: the report directory
\* it leaves.
probe_report(meta, src, raising, dir) ==
    IF meta.task \notin PROBE_TASKS \/ src = <<>> THEN dir
    ELSE WriteFile(dir,
                   probe_report_name(meta.task, meta.model, meta.seed,
                                     meta.arm),
                   ProbeDoc(meta.task, meta.model, meta.seed, meta.arm,
                            probe_results(PROBE_MAP(meta.task), src,
                                          raising)))

\* run_probes_on_file(py_path) on the file f of the tree.
run_probes_on_file(py_path, f, dir) ==
    TheOne({IF meta.none THEN dir
            ELSE TheOne({probe_report(meta, src, f.raises, dir) :
                            src \in {IF meta.task \in PROBE_TASKS
                                     THEN read_src(f) ELSE <<>>}}) :
               meta \in {parse_file_meta(py_path)}})

\* The files main passes to run_probes_on_file: the names ending in ".py"
\* of os.listdir(arm_dir), baseline before improved.
ArmFiles(tree) ==
    {f \in tree.files : /\ f.dir \in {<<S_baseline>>, <<S_improved>>}
                        /\ py_endswith(f.name, S_dot_py)}

ListOrder(tree) ==
    SelectSeq(tree.order, LAMBDA f : f \in ArmFiles(tree)
                                        /\ f.dir = <<S_baseline>>)
        \o SelectSeq(tree.order, LAMBDA f : f \in ArmFiles(tree)
                                               /\ f.dir = <<S_improved>>)

RECURSIVE ProbeAll(_, _, _, _)
ProbeAll(order, root, runId, dir) ==
    IF order = <<>> THEN dir
    ELSE ProbeAll(Tail(order), root, runId,
                  run_probes_on_file(FilePath(root, runId, Head(order)),
                                     Head(order), dir))

\* main() of run_probes.py on a report directory holding `dir`.
probes_main(tree, order, root, runId, dir) ==
    IF ~tree.exists
    THEN [dir |-> dir, visited |-> {}, warned |-> TRUE]
    ELSE [dir |-> ProbeAll(order, root, runId, dir),
          visited |-> {FilePath(root, runId, order[i]) : i \in DOMAIN order},
          warned |-> FALSE]

(***************************************************************************)
(* SpecRun: invocations of the two runners on one output tree.             *)
(***************************************************************************)
S_src_cmd_list ==
    <<"i","m","p","o","r","t"," ","s","u","b","p","r","o","c","e","s","s",
      "\n","s","u","b","p","r","o","c","e","s","s",".","r","u","n","(","[",
      "\"","e","c","h","o","\"",",","\"","h","i","\"","]",","," ","s","h","e",
      "l","l","=","F","a","l","s","e",")","\n">>
S_src_cmd_shell ==
    <<"i","m","p","o","r","t"," ","s","u","b","p","r","o","c","e","s","s",
      "\n","s","u","b","p","r","o","c","e","s","s",".","r","u","n","(","c",
      "m","d",","," ","s","h","e","l","l","=","T","r","u","e",")","\n">>
S_src_sql_qmark ==
    <<"c","u","r",".","e","x","e","c","u","t","e","(","\"","S","E","L","E",
      "C","T"," ","*"," ","F","R","O","M"," ","t"," ","W","H","E","R","E"," ",
      "i","d"," ","="," ","?","\"",","," ","(","u","i","d",",",")",")","\n">>
S_src_sql_concat ==
    <<"c","u","r",".","e","x","e","c","u","t","e","(","\"","S","E","L","E",
      "C","T"," ","*"," ","F","R","O","M"," ","t"," ","W","H","E","R","E"," ",
      "i","d"," ","="," ","\""," ","+"," ","u","i","d",")","\n">>
S_src_sql_fenced ==
    <<Backtick,Backtick,Backtick,"\n","c","u","r",".","e","x","e","c","u","t",
      "e","(","\"","S","E","L","E","C","T"," ","*"," ","F","R","O","M"," ",
      "t"," ","W","H","E","R","E"," ","i","d"," ","="," ","?","\"",","," ",
      "(","u","i","d",",",")",")","\n",Backtick,Backtick,Backtick,"\n">>
S_src_logging ==
    <<"i","m","p","o","r","t"," ","l","o","g","g","i","n","g","\n">>
S_task06_logging ==
    <<"t","a","s","k","0","6","_","l","o","g","g","i","n","g">>
S_config_json ==
    <<"c","o","n","f","i","g",".","j","s","o","n">>

\* A Python file kept next to config.json: baseline_task01_sql_s101.py
S_stray_py == S_baseline \o <<"_">> \o S_legacy_seeded

MaxSamples == 2     \* most files of an output tree

\* What the analyzer gives on a sample: no issue, an issue, a failure of the
\* tool, or a process that could not be run to its end.
ScanClean == [started |-> TRUE, returncode |-> 0, stdout |-> S_json_clean]
ScanIssues == [started |-> TRUE, returncode |-> 1, stdout |-> S_json_issue]
ScanToolError == [started |-> TRUE, returncode |-> 2, stdout |-> <<>>]
ScanNotStarted == [started |-> FALSE]

\* A sample as the tree holds it: its text, whether the text can be read
\* as UTF-8, what the analyzer gives on it, and the probes whose function
\* raises on its text.
Variant(src, readable, res, raises) ==
    [src |-> src, readable |-> readable, res |-> res, raises |-> raises]

SampleName(task, model, seed) ==
    basename(save_code_path(S_RUNX, S_baseline, task, model, seed))

\* The files an output tree may hold, each with the variants it may have:
\* samples of the two probed tasks, a sample of a task without probes, a
\* sample named by an older convention, config.json of run_generate.py,
\* and a Python file kept next to config.json.
TreeFileInputs ==
    {[dir |-> <<S_baseline>>,
      name |-> SampleName(S_task04_command, S_gemma3_27b, 7),
      variants |-> {Variant(S_src_cmd_shell, TRUE, ScanIssues, {}),
                    Variant(S_src_cmd_list, TRUE, ScanNotStarted, {}),
                    Variant(S_src_cmd_list, TRUE, ScanClean,
                            {"cmd_no_shell"})}],
     [dir |-> <<S_improved>>,
      name |-> SampleName(S_task01_sql, S_gpt_oss_20b, 101),
      variants |-> {Variant(S_src_sql_fenced, TRUE, ScanClean, {}),
                    Variant(S_src_sql_concat, TRUE, ScanToolError, {}),
                    Variant(S_src_sql_qmark, FALSE, ScanNotStarted, {}),
                    Variant(<<>>, TRUE, ScanClean, {})}],
     [dir |-> <<S_baseline>>,
      name |-> SampleName(S_task06_logging, S_gemma3_27b, 7),
      variants |-> {Variant(S_src_logging, TRUE, ScanClean, {})}],
     [dir |-> <<S_baseline>>,
      name |-> S_legacy_seeded,
      variants |-> {Variant(S_src_sql_qmark, TRUE, ScanClean, {})}],
     [dir |-> <<>>,
      name |-> S_config_json,
      variants |-> {Variant(<<"{", "}">>, TRUE, ScanToolError, {})}],
     [dir |-> <<>>,
      name |-> S_stray_py,
      variants |-> {Variant(S_src_logging, TRUE, ScanIssues, {})}]}

\* Every tree of at most `most` of the `files`, each in one of its variants.
TreeInputs(files, most) ==
    UNION {{{[dir |-> f.dir, name |-> f.name, src |-> c[f].src,
              readable |-> c[f].readable, res |-> c[f].res,
              raises |-> c[f].raises] : f \in picked} :
                c \in {g \in [picked -> UNION {f.variants : f \in files}] :
                           \A f \in picked : g[f] \in f.variants}} :
               picked \in {s \in SUBSET files : Cardinality(s) <= most}}

AnalyzerInputs ==
    {[installed |-> TRUE, version |-> S_bandit_version \o <<"\n">>],
     [installed |-> FALSE]}

InitRun ==
    /\ cfgRoot = S_root_opt
    /\ cfgRunId = S_RUNX
    /\ outTree \in {[exists |-> FALSE, files |-> {}, order |-> <<>>]} \cup
           UNION {{[exists |-> TRUE, files |-> files, order |-> order] :
                      order \in WalkOrders(files)} :
                     files \in TreeInputs(TreeFileInputs, MaxSamples)}
    /\ analyzer \in AnalyzerInputs
    /\ madeDirs = {}
    /\ lastRun = NoResult
    /\ disk = NoDisk
    /\ banditDir = {}
    /\ probeDir = {}
    /\ errLog = <<>>
    /\ crashed = FALSE
    /\ unit = NoResult
    /\ pyPath = <<>>
    /\ lastScan = NoResult
    /\ scans = 0
    /\ nameParsed = NoResult
    /\ metaParsed = NoResult
    /\ banditSamplesCsv = NoFile
    /\ banditAggCsv = NoFile
    /\ probesSamplesCsv = NoFile
    /\ probesAggCsv = NoFile
    /\ JsonIdle
    /\ ProbeIdle
    /\ GenIdle

S_run_bandit == "run_bandit.py"
S_run_probes == "run_probes.py"

\* `python run_bandit.py`: the import creates REPORT_DIR, then main() runs.
\* errLog and crashed are those of this invocation; `existed` records
\* whether makedirs(exist_ok=True) found the directory already there.
RunBanditMain ==
    /\ \E st \in {bandit_main(outTree, outTree.order, cfgRoot, cfgRunId,
                               analyzer, banditDir)} :
        /\ madeDirs' = madeDirs \cup {REPORT_DIR(cfgRoot, cfgRunId)}
        /\ banditDir' = st.dir
        /\ errLog' = st.err
        /\ crashed' = st.raised
        /\ lastRun' = [applied |-> TRUE, script |-> S_run_bandit,
                       visited |-> st.visited, warned |-> st.warned,
                       existed |-> REPORT_DIR(cfgRoot, cfgRunId) \in madeDirs]
    /\ UNCHANGED <<cfgRoot, cfgRunId, unit, pyPath, lastScan, scans,
                   nameParsed, metaParsed, outTree, analyzer, disk, jsonVars,
                   aggVars, probeVars,
                   genVars>>

\* `python run_probes.py`: the import creates REPORT_DIR, then main() runs.
RunProbesMain ==
    /\ \E st \in {probes_main(outTree, ListOrder(outTree), cfgRoot, cfgRunId,
                               probeDir)} :
        /\ madeDirs' = madeDirs \cup {PROBE_DIR(cfgRoot, cfgRunId)}
        /\ probeDir' = st.dir
        /\ errLog' = <<>>
        /\ crashed' = FALSE
        /\ lastRun' = [applied |-> TRUE, script |-> S_run_probes,
                       visited |-> st.visited, warned |-> st.warned,
                       existed |-> PROBE_DIR(cfgRoot, cfgRunId) \in madeDirs]
    /\ UNCHANGED <<cfgRoot, cfgRunId, unit, pyPath, banditDir, lastScan, scans,
                   nameParsed, metaParsed, outTree, analyzer, disk, jsonVars,
                   banditSamplesCsv, banditAggCsv, probesSamplesCsv,
                   probesAggCsv, probeVars,
                   genVars>>

\* `python parse_probes.py` on the probe reports written so far.
AggregateProbes == ParseProbesMain

NextRun == RunBanditMain \/ RunProbesMain \/ AggregateProbes

SpecRun == InitRun /\ [][NextRun]_vars

(***************************************************************************)
(* Claims about the runners' batches.                                      *)
(***************************************************************************)
PyFiles(tree) == {f \in tree.files : py_endswith(f.name, S_dot_py)}

BanditRan == lastRun.applied /\ lastRun.script = S_run_bandit

\* C11: whatever the outcome of an individual scan (non-zero exit code,
\* empty output, or an analyzer process that fails to start), a run of the
\* Bandit runner scans every .py file under the output root and main
\* returns normally.
C11_Original ==
    BanditRan =>
        /\ ~crashed
        /\ \A f \in PyFiles(outTree) :
               FilePath(cfgRoot, cfgRunId, f) \in lastRun.visited

(***************************************************************************)
(* SpecReagg: the Bandit aggregator invoked again and again while reports  *)
(* are written into the report directory.                                  *)
(***************************************************************************)
\* The reports written: two samples and the meta file, each as a document
\* or as a text that is not JSON (a write that was cut short).
ReaggFileInputs ==
    {[name |-> AggSample(S_baseline, S_task04_command, S_gemma3_27b, 7),
      docs |-> {[results |-> <<>>],
                [results |-> <<Issue(S_LOW), Issue(S_LOW)>>], NotJson}],
     [name |-> AggSample(S_improved, S_task01_sql, S_gpt_oss_20b, 101),
      docs |-> {[results |-> <<Issue(S_HIGH)>>], NotJson}],
     [name |-> S_meta_json, docs |-> {MetaDoc, NotJson}]}

InitReagg ==
    /\ cfgRoot = S_root_opt
    /\ cfgRunId = S_RUNX
    /\ banditDir = {}
    /\ unit = NoResult
    /\ pyPath = <<>>
    /\ errLog = <<>>
    /\ lastScan = NoResult
    /\ scans = 0
    /\ crashed = FALSE
    /\ nameParsed = NoResult
    /\ metaParsed = NoResult
    /\ AggIdle
    /\ JsonIdle
    /\ RunIdle
    /\ ProbeIdle
    /\ GenIdle

\* run_bandit.py writes or rewrites one file of the report directory.
WriteReport ==
    /\ \E f \in ReaggFileInputs : \E doc \in f.docs :
        banditDir' = WriteFile(banditDir, f.name, doc)
    /\ UNCHANGED <<cfgRoot, cfgRunId, unit, pyPath, errLog, lastScan, scans,
                   crashed, nameParsed, metaParsed, jsonVars, aggVars, runVars,
                   probeVars,
                   genVars>>

\* parse_bandit_results.py is invoked on the directory as it is.
ReaggBanditMain == BanditAggMain

NextReagg == WriteReport \/ ReaggBanditMain

SpecReagg == InitReagg /\ [][NextReagg]_vars

(***************************************************************************)
(* Claims about the abort of the Bandit aggregation.                       *)
(***************************************************************************)
ReportPath(f) == path_join(REPORT_DIR(cfgRoot, cfgRunId), f.name)

MalformedReports ==
    {f \in banditDir : ~is_meta(ReportPath(f)) /\ "not_json" \in DOMAIN f.content}

WellFormedReports ==
    {f \in banditDir : ~is_meta(ReportPath(f)) /\ "results" \in DOMAIN f.content}

\* C12: when a non-meta report of the directory is not JSON, an invocation
\* of the Bandit aggregator ends with an exception and leaves the samples
\* CSV and the aggregated CSV as they were (absent, or with the rows of an
\* earlier invocation): no row of any other report is written.
C12_AbortsWhole ==
    [][(MalformedReports # {} /\ banditDir' = banditDir)
          => /\ crashed'
             /\ banditSamplesCsv' = banditSamplesCsv
             /\ banditAggCsv' = banditAggCsv]_vars

\* An invocation has aborted on a directory that also holds a well-formed
\* report without a row, next to the CSV of an earlier invocation.
C12_Witness ==
    /\ crashed
    /\ MalformedReports # {}
    /\ banditSamplesCsv.exists
    /\ Len(banditSamplesCsv.rows) >= 1
    /\ \E f \in WellFormedReports :
           \A i \in DOMAIN banditSamplesCsv.rows :
               banditSamplesCsv.rows[i].file # ReportPath(f)

ProbesRan == lastRun.applied /\ lastRun.script = S_run_probes

\* C13: when outputs/<RUN_ID> does not exist, an invocation of the Bandit
\* runner or of the probe runner logs a warning, raises nothing and
\* produces no output: no report file, no meta file and no directory.
C13_Original ==
    (lastRun.applied /\ ~outTree.exists) =>
        /\ lastRun.warned
        /\ ~crashed
        /\ banditDir = {}
        /\ probeDir = {}
        /\ madeDirs = {}

\* The task a sample file is named after: the leading task<digits>_<word>
\* of its name, or <<>>.
SampleTask(f) ==
    IF TaskGroupEnd(f.name, 1) = 0 THEN <<>>
    ELSE Slice(f.name, 1, TaskGroupEnd(f.name, 1))

\* The probe report of a sample <name>.py of an arm: <name>_<arm>.json
SampleProbeReport(f) ==
    Slice(f.name, 1, Len(f.name) - 2) \o <<"_">> \o f.dir[1] \o S_dot_json

ProbeNames(probes) == [i \in DOMAIN probes |-> probes[i].name]

ProbedSamples ==
    {f \in ArmFiles(outTree) : SampleTask(f) \in PROBE_TASKS}

\* C14: after an invocation of the probe runner, every sample .py file
\* directly under baseline/ or improved/ whose task has a registered probe
\* set has exactly one report, and the `probes` of the report are exactly
\* the probe names registered for the task, each with a boolean.
C14_Original ==
    ProbesRan =>
        \A f \in ProbedSamples :
            /\ Cardinality({r \in probeDir : r.name = SampleProbeReport(f)}) = 1
            /\ \A r \in probeDir :
                   r.name = SampleProbeReport(f) =>
                       /\ ProbeNames(r.content.probes)
                              = PROBE_MAP(SampleTask(f))
                       /\ \A i \in DOMAIN r.content.probes :
                              r.content.probes[i].ok \in BOOLEAN

UnprobedSamples ==
    {f \in ArmFiles(outTree) :
        SampleTask(f) # <<>> /\ SampleTask(f) \notin PROBE_TASKS}

CsvRows(csv) == IF csv.exists THEN SeqRange(csv.rows) ELSE {}

\* C15: for a sample whose task is not in PROBE_MAP the probe runner writes
\* no report at all (not a report with zero probes) and raises nothing, so
\* the sample has no row in the probe samples CSV and its task no row in
\* the aggregated CSV.
C15_NoReport ==
    /\ ProbesRan => ~crashed
    /\ \A f \in UnprobedSamples :
        /\ \A r \in probeDir :
               r.name # SampleProbeReport(f) /\ r.content.task # SampleTask(f)
        /\ \A row \in CsvRows(probesSamplesCsv) :
               row.file # SampleProbeReport(f) /\ row.task # SampleTask(f)
        /\ \A row \in CsvRows(probesAggCsv) : row.task # SampleTask(f)

\* The probe runner has passed over a sample of a task without probes and
\* has written the report of another sample, and the CSVs were made.
C15_Witness ==
    /\ ProbesRan
    /\ \E f \in UnprobedSamples :
           FilePath(cfgRoot, cfgRunId, f) \in lastRun.visited
    /\ probeDir # {}
    /\ probesSamplesCsv.exists
    /\ Len(probesSamplesCsv.rows) >= 1

\* The samples on whose text a probe function raises.
RaisingSamples == {f \in ProbedSamples : f.raises # {}}

ReportsOf(f) == {r \in probeDir : r.name = SampleProbeReport(f)}

\* C16: when a probe function raises on the text of a sample, the report
\* of the sample is still written, it records that probe as false and
\* every other probe of the task as well, and the batch goes on: every
\* sample file is passed to run_probes_on_file and main raises nothing.
C16_ProbeExceptionIsFail ==
    ProbesRan =>
        /\ ~crashed
        /\ \A g \in ArmFiles(outTree) :
               FilePath(cfgRoot, cfgRunId, g) \in lastRun.visited
        /\ \A f \in RaisingSamples :
               /\ ReportsOf(f) # {}
               /\ \A r \in ReportsOf(f) :
                      /\ ProbeNames(r.content.probes)
                             = PROBE_MAP(SampleTask(f))
                      /\ \A i \in DOMAIN r.content.probes :
                             r.content.probes[i].name \in f.raises
                                 => r.content.probes[i].ok = FALSE

\* A probe raised on a sample of baseline/, its report holds the probe as
\* false, and a sample of improved/, visited after it, has its report too.
C16_Witness ==
    /\ ProbesRan
    /\ \E f \in RaisingSamples, g \in ProbedSamples :
           /\ f.dir = <<S_baseline>>
           /\ g.dir = <<S_improved>>
           /\ \E r \in ReportsOf(f) :
                  \E i \in DOMAIN r.content.probes :
                      /\ r.content.probes[i].name \in f.raises
                      /\ r.content.probes[i].ok = FALSE
           /\ ReportsOf(g) # {}

(***************************************************************************)
(* SpecProbe: the two probe functions applied to every source text of at   *)
(* most MaxLines lines.  A line carries what is known of it by             *)
(* construction: that it calls subprocess with a list and shell=False      *)
(* (list_call), calls an API that runs a shell (shell_api), concatenates   *)
(* or formats the string right inside execute( (concat, fstring), holds a  *)
(* parameter placeholder in an SQL string (placeholder), holds the         *)
(* character '?' (qmark) or a :name in the string right inside execute(    *)
(* (named_in_execute), ends in an open execute( (opens), or is a           *)
(* concatenation that may follow such an opening (cont_concat).            *)
(***************************************************************************)
MaxLines == 2       \* most lines of a source text

SrcLine(text, is) == [text |-> text, is |-> is]

S_list_call_line ==
    <<"s","u","b","p","r","o","c","e","s","s",".","r","u","n","(","[","\"",
      "e","c","h","o","\"",",","\"","h","i","\"","]",","," ","s","h","e","l",
      "l","=","F","a","l","s","e",")","\n">>
S_shell_true_line ==
    <<"s","u","b","p","r","o","c","e","s","s",".","r","u","n","(","c","m","d",
      ","," ","s","h","e","l","l","=","T","r","u","e",")","\n">>
S_os_system_line ==
    <<"o","s",".","s","y","s","t","e","m","(","c","m","d",")","\n">>
S_os_popen_line ==
    <<"o","s",".","p","o","p","e","n","(","c","m","d",")",".","r","e","a","d",
      "(",")","\n">>
S_import_line ==
    <<"i","m","p","o","r","t"," ","s","u","b","p","r","o","c","e","s","s",
      "\n">>
S_list_only_line ==
    <<"s","u","b","p","r","o","c","e","s","s",".","r","u","n","(","[","\"",
      "l","s","\"","]",")","\n">>
S_exec_qmark_line ==
    <<"c","u","r",".","e","x","e","c","u","t","e","(","\"","S","E","L","E",
      "C","T"," ","a"," ","F","R","O","M"," ","t"," ","W","H","E","R","E"," ",
      "b"," ","="," ","?","\"",","," ","(","u","i","d",",",")",")","\n">>
S_exec_concat_line ==
    <<"c","u","r",".","e","x","e","c","u","t","e","(","\"","S","E","L","E",
      "C","T"," ","a"," ","F","R","O","M"," ","t"," ","W","H","E","R","E"," ",
      "b"," ","="," ","\""," ","+"," ","u","i","d",")","\n">>
S_exec_fstring_line ==
    <<"c","u","r",".","e","x","e","c","u","t","e","(","f","\"","S","E","L",
      "E","C","T"," ","a"," ","F","R","O","M"," ","t"," ","W","H","E","R","E",
      " ","b"," ","="," ","{","u","i","d","}","\"",")","\n">>
S_exec_named_line ==
    <<"c","u","r",".","e","x","e","c","u","t","e","(","\"","S","E","L","E",
      "C","T"," ","a"," ","F","R","O","M"," ","t"," ","W","H","E","R","E"," ",
      "b"," ","="," ",":","u","i","d","\"",","," ","{","\"","u","i","d","\"",
      ":"," ","u","i","d","}",")","\n">>
S_query_named_line ==
    <<"q"," ","="," ","\"","S","E","L","E","C","T"," ","a"," ","F","R","O",
      "M"," ","t"," ","W","H","E","R","E"," ","b"," ","="," ",":","u","i","d",
      "\"","\n">>
S_exec_query_line ==
    <<"c","u","r",".","e","x","e","c","u","t","e","(","q",","," ","{","\"",
      "u","i","d","\"",":"," ","u","i","d","}",")","\n">>
S_exec_open_line ==
    <<"c","u","r",".","e","x","e","c","u","t","e","(","\n">>
S_cont_concat_line ==
    <<" "," "," "," ","\"","S","E","L","E","C","T"," ","a"," ","F","R","O",
      "M"," ","t"," ","W","H","E","R","E"," ","b"," ","="," ","\""," ","+",
      " ","u","i","d",")","\n">>
S_comment_url_line ==
    <<"#"," ","G","E","T"," ","/","u","s","e","r","?","u","i","d","=","1",
      "\n">>

LineInputs ==
    {SrcLine(S_list_call_line, {"list_call"}),
     SrcLine(S_shell_true_line, {"shell_api"}),
     SrcLine(S_os_system_line, {"shell_api"}),
     SrcLine(S_os_popen_line, {"shell_api"}),
     SrcLine(S_import_line, {}),
     SrcLine(S_list_only_line, {}),
     SrcLine(S_exec_qmark_line, {"placeholder", "qmark"}),
     SrcLine(S_exec_concat_line, {"concat"}),
     SrcLine(S_exec_fstring_line, {"fstring"}),
     SrcLine(S_exec_named_line, {"placeholder", "named_in_execute"}),
     SrcLine(S_query_named_line, {"placeholder"}),
     SrcLine(S_exec_query_line, {}),
     SrcLine(S_exec_open_line, {"opens"}),
     SrcLine(S_cont_concat_line, {"cont_concat"}),
     SrcLine(S_comment_url_line, {"qmark"})}

SourceInputs == SeqsUpTo(LineInputs, MaxLines)

\* The text of a source: its lines one after the other.
RECURSIVE JoinLines(_)
JoinLines(ls) ==
    IF ls = <<>> THEN <<>> ELSE Head(ls).text \o JoinLines(Tail(ls))

InitProbe ==
    /\ srcText \in SourceInputs
    /\ probeVerdict = NoResult
    /\ GenIdle
    /\ JsonIdle
    /\ SampleIdle
    /\ AggIdle
    /\ RunIdle

\* bool(probe_cmd_no_shell_src(src))
ProbeCmdNoShell ==
    /\ ~probeVerdict.applied
    /\ probeVerdict' = [applied |-> TRUE, probe |-> "cmd_no_shell",
                        ok |-> probe_cmd_no_shell_src(JoinLines(srcText))]
    /\ UNCHANGED <<srcText, jsonVars, sampleVars, aggVars, runVars, genVars>>

\* bool(probe_sql_parameterized_src(src))
ProbeSqlParam ==
    /\ ~probeVerdict.applied
    /\ probeVerdict' = [applied |-> TRUE, probe |-> "sql_param",
                        ok |-> probe_sql_parameterized_src(JoinLines(srcText))]
    /\ UNCHANGED <<srcText, jsonVars, sampleVars, aggVars, runVars, genVars>>

NextProbe == ProbeCmdNoShell \/ ProbeSqlParam

SpecProbe == InitProbe /\ [][NextProbe]_vars

(***************************************************************************)
(* Claims about the probe functions.                                       *)
(***************************************************************************)
HasLine(what) == \E i \in DOMAIN srcText : what \in srcText[i].is

CmdVerdict == probeVerdict.applied /\ probeVerdict.probe = "cmd_no_shell"
SqlVerdict == probeVerdict.applied /\ probeVerdict.probe = "sql_param"

\* C17: the cmd_no_shell probe passes only if the source holds a
\* list-style subprocess invocation with an explicit shell=False and holds
\* no call of an API that runs a shell.
C17_Original ==
    (CmdVerdict /\ probeVerdict.ok) =>
        HasLine("list_call") /\ ~HasLine("shell_api")

ConcatInExecute ==
    \/ HasLine("concat")
    \/ \E i \in DOMAIN srcText :
           /\ i + 1 \in DOMAIN srcText
           /\ "opens" \in srcText[i].is
           /\ "cont_concat" \in srcText[i + 1].is

\* C18 as stated: the sql_param probe passes if and only if the source has
\* no string concatenation and no f-string right inside an execute( call
\* and holds a parameter placeholder.
C18_Original ==
    SqlVerdict =>
        (probeVerdict.ok <=>
            (~ConcatInExecute /\ ~HasLine("fstring") /\ HasLine("placeholder")))

\* C18, amended: the sql_param probe passes if and only if the source has
\* no string concatenation and no f-string right inside an execute( call
\* and holds the character '?' anywhere or a :name placeholder inside the
\* string literal that directly follows execute(.
C18_Patterns ==
    SqlVerdict =>
        (probeVerdict.ok <=>
            (/\ ~ConcatInExecute
             /\ ~HasLine("fstring")
             /\ (HasLine("qmark") \/ HasLine("named_in_execute"))))

\* The probe has passed a two-line source on its :name placeholder alone.
C18_Witness ==
    /\ SqlVerdict
    /\ probeVerdict.ok
    /\ Len(srcText) = 2
    /\ HasLine("named_in_execute")
    /\ ~HasLine("qmark")

(***************************************************************************)
(* Claims about the per-sample rule-pass rate.                             *)
(***************************************************************************)
TrueEntries(probes) == Cardinality({i \in DOMAIN probes : probes[i].ok})

\* The rows of the probe samples CSV, each with the report it was made of.
RowsWithReport ==
    {<<row, f>> \in CsvRows(probesSamplesCsv) \X probeDir :
        row.file = f.name}

\* C19 as stated: the RPR of a sample equals (true entries of `probes`) /
\* (keys of `probes`), lies in [0, 1], and is 0 when `probes` is empty.
\* RPR is held in thousandths.
C19_Original ==
    \A p \in RowsWithReport :
        LET row == p[1]
            probes == p[2].content.probes
        IN  /\ 0 <= row.RPR /\ row.RPR <= 1000
            /\ Len(probes) = 0 => row.RPR = 0
            /\ Len(probes) > 0
                   => row.RPR * Len(probes) = 1000 * TrueEntries(probes)

\* C19, amended: the RPR of a sample is (true entries of `probes`) / (keys
\* of `probes`) rounded to three decimals, lies in [0, 1], and is 0 when
\* `probes` is empty.
C19_RoundedRate ==
    \A p \in RowsWithReport :
        LET row == p[1]
            probes == p[2].content.probes
        IN  /\ 0 <= row.RPR /\ row.RPR <= 1000
            /\ Len(probes) = 0 => row.RPR = 0
            /\ Len(probes) > 0
                   => 2 * Abs(row.RPR * Len(probes)
                                  - 1000 * TrueEntries(probes))
                          <= Len(probes)

\* The CSV holds a sample with one of three probes true (0.333) and a
\* sample without probes (0).
C19_Witness ==
    /\ \E p \in RowsWithReport :
           /\ Len(p[2].content.probes) = 3
           /\ TrueEntries(p[2].content.probes) = 1
           /\ p[1].RPR = 333
    /\ \E p \in RowsWithReport :
           Len(p[2].content.probes) = 0 /\ p[1].RPR = 0

(***************************************************************************)
(* Claims about running the runners again on the same output directory.    *)
(***************************************************************************)
\* The Bandit report of the file f of the tree: the path below ROOT with
\* "/" replaced by "_", followed by ".json".
SampleBanditReport(f) ==
    scan_file_out_name(FilePath(cfgRoot, cfgRunId, f), cfgRoot)

BanditReportsOf(f) == {r \in banditDir : r.name = SampleBanditReport(f)}

\* Every file of the two report directories is the meta file or the report
\* named after one sample, and no sample has two reports.
OneReportPerSample ==
    /\ \A named \in {{<<f, SampleBanditReport(f)>> : f \in PyFiles(outTree)}} :
           /\ \A r \in banditDir :
                  \/ r.name = S_meta_json
                  \/ \E p \in named : r.name = p[2]
           /\ \A p \in named :
                  Cardinality({r \in banditDir : r.name = p[2]}) <= 1
    /\ \A named \in {{<<f, SampleProbeReport(f)>> : f \in ProbedSamples}} :
           /\ \A r \in probeDir : \E p \in named : r.name = p[2]
           /\ \A p \in named :
                  Cardinality({r \in probeDir : r.name = p[2]}) <= 1

\* An invocation of a runner that found its report directory already made
\* leaves the files of the directory as they were.
RerunKeepsReports ==
    /\ (/\ lastRun'.applied
        /\ lastRun'.existed
        /\ lastRun'.script = S_run_bandit) => banditDir' = banditDir
    /\ (/\ lastRun'.applied
        /\ lastRun'.existed
        /\ lastRun'.script = S_run_probes) => probeDir' = probeDir

\* C20: the name of a report is a function of the sample alone, so an
\* invocation of the Bandit runner or of the probe runner that finds its
\* report directory already made by an earlier invocation, over the same
\* output tree and the same analyzer, leaves the report directory with the
\* same files and the same contents, and every sample has at most one
\* Bandit report and at most one probe report.
C20_RerunChangesNothing ==
    []OneReportPerSample /\ [][RerunKeepsReports]_vars

\* C20 witness: the Bandit runner has run again after the probe runner,
\* and both report directories hold reports of samples.
C20_Witness ==
    /\ BanditRan
    /\ lastRun.existed
    /\ PROBE_DIR(cfgRoot, cfgRunId) \in madeDirs
    /\ \E f, g \in PyFiles(outTree) :
           /\ f # g
           /\ BanditReportsOf(f) # {}
           /\ BanditReportsOf(g) # {}
    /\ \E f \in ProbedSamples : ReportsOf(f) # {}

(***************************************************************************)
(* glob.glob(os.path.join(REPORT_DIR, "*.json")) of parse_bandit_results.py *)
(* and parse_probes.py.  RUN_ID is part of the pattern: glob splits the    *)
(* pattern at the last "/", and a directory part holding one of the        *)
(* characters * ? [ is itself matched, with fnmatch, against the names the *)
(* parent directory holds.                                                 *)
(***************************************************************************)
AnyClass == NotClass({})
MagicChars == {"*", "?", "["}

\* glob.has_magic
has_magic(s) == \E i \in DOMAIN s : s[i] \in MagicChars

\* fnmatch.translate at a "[" (pat[1]): the index of the "]" that closes
\* the class, 0 when none does and the "[" stands for itself.
BracketEnd(pat) ==
    LET a == IF Len(pat) >= 2 /\ pat[2] = "!" THEN 3 ELSE 2
        b == IF a <= Len(pat) /\ pat[a] = "]" THEN a + 1 ELSE a
        closes == {j \in b..Len(pat) : pat[j] = "]"}
    IN  IF closes = {} THEN 0
        ELSE CHOOSE j \in closes : \A k \in closes : j <= k

\* fnmatch.translate(pat): the pattern as atoms.  A class is the set of the
\* characters between the brackets (the class of a run id of the model
\* holds no range).
RECURSIVE fnmatch_translate(_)
fnmatch_translate(pat) ==
    IF pat = <<>> THEN <<>>
    ELSE IF Head(pat) = "*"
    THEN <<Star(AnyClass)>> \o fnmatch_translate(Tail(pat))
    ELSE IF Head(pat) = "?"
    THEN <<One(AnyClass)>> \o fnmatch_translate(Tail(pat))
    ELSE IF Head(pat) = "[" /\ BracketEnd(pat) # 0
    THEN <<One([neg |-> pat[2] = "!",
                chars |-> SeqRange(Slice(pat, IF pat[2] = "!" THEN 3 ELSE 2,
                                         BracketEnd(pat)))])>>
         \o fnmatch_translate(Slice(pat, BracketEnd(pat) + 1, Len(pat) + 1))
    ELSE <<Lit(<<Head(pat)>>)>> \o fnmatch_translate(Tail(pat))

\* fnmatch.fnmatch(name, pat): the whole name has to match.
fnmatch(name, pat) ==
    (Len(name) + 1) \in PatternEnds(fnmatch_translate(pat), name, {1})

S_star_json == <<"*">> \o S_dot_json

\* glob.glob(os.path.join(<reports>, runId, "*.json")): the files found,
\* each with the directory it was found in.  `dirs` gives, for a name under
\* <reports>, whether the directory exists and the files it holds.
glob_reports(dirs, runId) ==
    UNION {{[dir |-> d, file |-> f] :
               f \in {g \in dirs[d].files : fnmatch(g.name, S_star_json)}} :
              d \in {e \in DOMAIN dirs :
                        /\ dirs[e].exists
                        /\ IF has_magic(runId) THEN fnmatch(e, runId)
                           ELSE e = runId}}

\* json.load on the texts the report files of the model hold: the two
\* outputs of the analyzer; any other text is not a report document.
json_loads(text) ==
    IF text = S_json_clean THEN [results |-> <<>>]
    ELSE IF text = S_json_issue THEN [results |-> <<Issue(PyNone)>>]
    ELSE NotJson

\* The rows main of parse_bandit_results.py appends for the files glob
\* found, in the order it gave them; RUN_ID is that of the invocation,
\* `file` the path glob gave.
RECURSIVE GlobBanditRows(_, _, _)
GlobBanditRows(found, root, runId) ==
    IF found = <<>> THEN <<>>
    ELSE TheOne({[i \in DOMAIN row |-> [row[i] EXCEPT !.RUN_ID = runId]] :
                    row \in {BanditRowOf(
                                 [name |-> Head(found).file.name,
                                  content |->
                                      json_loads(Head(found).file.content)],
                                 root, Head(found).dir)}})
         \o GlobBanditRows(Tail(found), root, runId)

\* Whether json.load raises on one of the files glob found.
glob_load_raises(found, root) ==
    \E i \in DOMAIN found :
        /\ ~is_meta(path_join(REPORT_DIR(root, found[i].dir),
                              found[i].file.name))
        /\ ~json_load_ok(json_loads(found[i].file.content))

S_run1 ==
    <<"r","u","n","1">>
S_run_b1 ==
    <<"r","u","n","[","1","]">>
S_bandit_samples_ ==
    <<"b","a","n","d","i","t","_","s","a","m","p","l","e","s","_">>
S_bandit_aggregated_ ==
    <<"b","a","n","d","i","t","_","a","g","g","r","e","g","a","t","e","d",
      "_">>
S_probes_samples_ ==
    <<"p","r","o","b","e","s","_","s","a","m","p","l","e","s","_">>
S_probes_aggregated_ ==
    <<"p","r","o","b","e","s","_","a","g","g","r","e","g","a","t","e","d",
      "_">>
S_dot_csv ==
    <<".","c","s","v">>

\* OUT_SAMPLES and OUT_AGG: the name of a CSV file of a run id under eval/
csv_name(prefix, runId) == prefix \o runId \o S_dot_csv

(***************************************************************************)
(* SpecIso: the four scoring scripts invoked with one of two run ids on    *)
(* one installation.  disk.outputs, disk.bandit and disk.probes give the   *)
(* directories outputs/<id>, eval/bandit_reports/<id> and                  *)
(* eval/probes_reports/<id>, disk.csv the CSV files of eval/.              *)
(***************************************************************************)
IsoRunIds == {S_run1, S_run_b1}

NoDir == [exists |-> FALSE, files |-> {}]

IsoTree(dir, task, model, seed, variant) ==
    [exists |-> TRUE,
     files |-> {[dir |-> <<dir>>, name |-> SampleName(task, model, seed),
                 src |-> variant.src, readable |-> variant.readable,
                 res |-> variant.res, raises |-> variant.raises]},
     order |-> <<[dir |-> <<dir>>, name |-> SampleName(task, model, seed),
                  src |-> variant.src, readable |-> variant.readable,
                  res |-> variant.res, raises |-> variant.raises]>>]

\* The output trees of the two run ids: one sample each.
IsoOutputInputs ==
    {[id \in IsoRunIds |->
         IF id = S_run1
         THEN IsoTree(S_baseline, S_task04_command, S_gemma3_27b, 7, v)
         ELSE IsoTree(S_improved, S_task01_sql, S_gpt_oss_20b, 101, w)] :
        v \in {Variant(S_src_cmd_shell, TRUE, ScanIssues, {}),
               Variant(S_src_cmd_list, TRUE, ScanClean, {})},
        w \in {Variant(S_src_sql_qmark, TRUE, ScanClean, {})}}

InitIso ==
    /\ cfgRoot = S_root_opt
    /\ cfgRunId = <<>>
    /\ disk \in {[followed |-> TRUE, outputs |-> o,
                  bandit |-> [id \in IsoRunIds |-> NoDir],
                  probes |-> [id \in IsoRunIds |-> NoDir],
                  csv |-> {}] : o \in IsoOutputInputs}
    /\ analyzer = [installed |-> TRUE, version |-> S_bandit_version \o <<"\n">>]
    /\ outTree = [exists |-> FALSE, files |-> {}, order |-> <<>>]
    /\ madeDirs = {}
    /\ lastRun = NoResult
    /\ unit = NoResult
    /\ pyPath = <<>>
    /\ banditDir = {}
    /\ errLog = <<>>
    /\ lastScan = NoResult
    /\ scans = 0
    /\ crashed = FALSE
    /\ nameParsed = NoResult
    /\ metaParsed = NoResult
    /\ AggIdle
    /\ JsonIdle
    /\ ProbeIdle
    /\ GenIdle

\* `RUN_ID=<id> python run_bandit.py`
IsoRunBandit ==
    /\ \E id \in IsoRunIds :
        \E st \in {bandit_main(disk.outputs[id], disk.outputs[id].order,
                               cfgRoot, id, analyzer,
                               disk.bandit[id].files)} :
            /\ disk' = [disk EXCEPT !.bandit[id] =
                                        [exists |-> TRUE, files |-> st.dir]]
            /\ cfgRunId' = id
            /\ errLog' = st.err
            /\ crashed' = st.raised
    /\ UNCHANGED <<cfgRoot, unit, pyPath, banditDir, lastScan, scans,
                   nameParsed, metaParsed, outTree, madeDirs, lastRun,
                   analyzer, jsonVars, aggVars, probeVars,
                   genVars>>

\* `RUN_ID=<id> python run_probes.py`
IsoRunProbes ==
    /\ \E id \in IsoRunIds :
        \E st \in {probes_main(disk.outputs[id], ListOrder(disk.outputs[id]),
                               cfgRoot, id, disk.probes[id].files)} :
            /\ disk' = [disk EXCEPT !.probes[id] =
                                        [exists |-> TRUE, files |-> st.dir]]
            /\ cfgRunId' = id
            /\ errLog' = <<>>
            /\ crashed' = FALSE
    /\ UNCHANGED <<cfgRoot, unit, pyPath, banditDir, lastScan, scans,
                   nameParsed, metaParsed, outTree, madeDirs, lastRun,
                   analyzer, jsonVars, aggVars, probeVars,
                   genVars>>

\* `RUN_ID=<id> python parse_bandit_results.py`
IsoParseBandit ==
    /\ \E id \in IsoRunIds :
        \E found \in GlobOrders(glob_reports(disk.bandit, id)) :
            /\ cfgRunId' = id
            /\ errLog' = <<>>
            /\ IF glob_load_raises(found, cfgRoot)
               THEN crashed' = TRUE /\ disk' = disk
               ELSE \E rows \in {GlobBanditRows(found, cfgRoot, id)} :
                       /\ crashed' = FALSE
                       /\ disk' = [disk EXCEPT !.csv =
                              WriteFile(
                                  WriteFile(@, csv_name(S_bandit_samples_, id),
                                            CsvFile(rows)),
                                  csv_name(S_bandit_aggregated_, id),
                                  CsvFile(BanditAggRows(id, rows)))]
    /\ UNCHANGED <<cfgRoot, unit, pyPath, banditDir, lastScan, scans,
                   nameParsed, metaParsed, outTree, madeDirs, lastRun,
                   analyzer, jsonVars, aggVars, probeVars,
                   genVars>>

\* `RUN_ID=<id> python parse_probes.py`
IsoParseProbes ==
    /\ \E id \in IsoRunIds :
        \E found \in GlobOrders(glob_reports(disk.probes, id)) :
            \E rows \in {ProbeRows([i \in DOMAIN found |-> found[i].file],
                                   cfgRoot, id)} :
                /\ cfgRunId' = id
                /\ errLog' = <<>>
                /\ crashed' = FALSE
                /\ disk' = [disk EXCEPT !.csv =
                       WriteFile(
                           WriteFile(@, csv_name(S_probes_samples_, id),
                                     CsvFile(rows)),
                           csv_name(S_probes_aggregated_, id),
                           CsvFile(ProbesAggRows(id, rows)))]
    /\ UNCHANGED <<cfgRoot, unit, pyPath, banditDir, lastScan, scans,
                   nameParsed, metaParsed, outTree, madeDirs, lastRun,
                   analyzer, jsonVars, aggVars, probeVars,
                   genVars>>

NextIso == IsoRunBandit \/ IsoRunProbes \/ IsoParseBandit \/ IsoParseProbes

SpecIso == InitIso /\ [][NextIso]_vars

(***************************************************************************)
(* Claims about the isolation of the run ids.                              *)
(***************************************************************************)
CsvNamesOf(runId) ==
    {csv_name(p, runId) : p \in {S_bandit_samples_, S_bandit_aggregated_,
                                 S_probes_samples_, S_probes_aggregated_}}

\* The step leaves what belongs to the run ids other than `id` as it was.
OthersUntouched(id) ==
    \A other \in IsoRunIds \ {id} :
        /\ disk'.bandit[other] = disk.bandit[other]
        /\ disk'.probes[other] = disk.probes[other]
        /\ disk'.outputs[other] = disk.outputs[other]
        /\ \A name \in CsvNamesOf(other) :
               {f \in disk'.csv : f.name = name}
                   = {f \in disk.csv : f.name = name}

\* The sample rows written by the step are those of the reports of the
\* directory of `id` itself.
ReadsOwnReports(id) ==
    \A f \in disk'.csv \ disk.csv :
        /\ f.name = csv_name(S_bandit_samples_, id) =>
               \E own \in GlobOrders({[dir |-> id, file |-> g] :
                                         g \in disk.bandit[id].files}) :
                   f.content.rows = GlobBanditRows(own, cfgRoot, id)
        /\ f.name = csv_name(S_probes_samples_, id) =>
               \E own \in GlobOrders(disk.probes[id].files) :
                   f.content.rows = ProbeRows(own, cfgRoot, id)

\* C21: an invocation of a scoring script with RUN_ID = A reads only the
\* inputs of A, and creates or modifies no report directory and no CSV file
\* of another run id B.
C21_Original ==
    [][OthersUntouched(cfgRunId') /\ ReadsOwnReports(cfgRunId')]_vars

(***************************************************************************)
(* Claims about the rows of the CSV files as a partition of the reports.   *)
(***************************************************************************)
RowsOfFile(csv, file) == {i \in DOMAIN csv.rows : csv.rows[i].file = file}

\* The aggregate rows have distinct keys and the group sizes, each at least
\* one, which add up to the number of sample rows.
GroupsPartition(samples, agg) ==
    /\ GroupSizes(samples, agg)
    /\ \A i, j \in DOMAIN agg.rows :
           i # j => RowKey(agg.rows[i]) # RowKey(agg.rows[j])
    /\ \A i \in DOMAIN agg.rows : agg.rows[i].n >= 1
    /\ ColumnSum(agg.rows, "n") = Len(samples.rows)

\* C22: the samples CSV of the Bandit aggregator has exactly one row for
\* every file of the report directory other than _meta.json and none for
\* _meta.json; every sample row belongs to exactly one aggregate row, every
\* aggregate row has n >= 1 and the n add up to the number of sample rows.
\* The probe aggregator has one row for every file of its directory and
\* the same grouping.
C22_Partition ==
    /\ banditSamplesCsv.exists =>
        /\ \A f \in banditDir :
               Cardinality(RowsOfFile(banditSamplesCsv, ReportPath(f)))
                   = IF f.name = S_meta_json THEN 0 ELSE 1
        /\ Len(banditSamplesCsv.rows)
               = Cardinality({f \in banditDir : f.name # S_meta_json})
        /\ banditAggCsv.exists
        /\ GroupsPartition(banditSamplesCsv, banditAggCsv)
    /\ probesSamplesCsv.exists =>
        /\ \A f \in probeDir :
               Cardinality(RowsOfFile(probesSamplesCsv, f.name)) = 1
        /\ Len(probesSamplesCsv.rows) = Cardinality(probeDir)
        /\ probesAggCsv.exists
        /\ GroupsPartition(probesSamplesCsv, probesAggCsv)

\* C22 witness: a Bandit report directory with _meta.json and two reports
\* of one group was aggregated to two sample rows and one row with n = 2.
C22_Witness ==
    /\ banditSamplesCsv.exists
    /\ \E f \in banditDir : f.name = S_meta_json
    /\ Len(banditSamplesCsv.rows) = 2
    /\ Len(banditAggCsv.rows) = 1
    /\ banditAggCsv.rows[1].n = 2

(***************************************************************************)
(* Claims about the files the two runners take as input.                   *)
(***************************************************************************)
\* The paths of the .py files directly in baseline/ and improved/.
ArmSamplePaths ==
    {FilePath(cfgRoot, cfgRunId, f) : f \in ArmFiles(outTree)}

\* C23: the Bandit runner and the probe runner take the same input: an
\* invocation of either processes exactly the .py files directly in
\* outputs/<RUN_ID>/baseline/ and outputs/<RUN_ID>/improved/, and no other
\* file under outputs/<RUN_ID>.
C23_Original ==
    (lastRun.applied /\ outTree.exists) => lastRun.visited = ArmSamplePaths

(***************************************************************************)
(* Claims about what the probe runner does with a sample file.             *)
(***************************************************************************)
\* Every probe verdict of a report is what the probe function gives on the
\* text read from the sample, for the samples on which no probe raises.
VerdictsFromText ==
    \A f \in ProbedSamples :
        f.raises = {} =>
            \A text \in {read_src(f)} :
                \A r \in ReportsOf(f) :
                    \A i \in DOMAIN r.content.probes :
                        r.content.probes[i].ok
                            = call_probe(r.content.probes[i].name, text)

\* An invocation of the probe runner leaves the output tree and the
\* analyzer as they were.
ProbeRunnerOnlyReads ==
    (lastRun'.applied /\ lastRun'.script = S_run_probes) =>
        /\ outTree' = outTree
        /\ analyzer' = analyzer
        /\ banditDir' = banditDir

\* C24: the probe runner only reads the text of a sample file: it leaves
\* the file as it was, and the verdict of every probe in the report is
\* that of the probe function applied to the text read, whatever the arm,
\* the path or the analyzer's view of the sample.
C24_TextOnly ==
    []VerdictsFromText /\ [][ProbeRunnerOnlyReads]_vars

\* C24 witness: the probe runner has written the reports of two samples,
\* one whose text fails its probe and one whose text passes it.
C24_Witness ==
    /\ ProbesRan
    /\ \E f, g \in ProbedSamples :
           /\ f.raises = {} /\ g.raises = {}
           /\ \E r \in ReportsOf(f) : ~r.content.probes[1].ok
           /\ \E r \in ReportsOf(g) : r.content.probes[1].ok

(***************************************************************************)
(* Claims about the names of the Bandit reports of one batch.              *)
(***************************************************************************)
\* The files of the tree that the invocation passed to scan_file.
ScannedFiles ==
    {f \in PyFiles(outTree) :
        FilePath(cfgRoot, cfgRunId, f) \in lastRun.visited}

\* C25: two distinct .py files that one invocation of the Bandit runner
\* finds under outputs/<RUN_ID> never get the same report name, so the
\* report of one file is not overwritten by that of another.
C25_Original ==
    BanditRan =>
        \A f, g \in ScannedFiles :
            f # g => SampleBanditReport(f) # SampleBanditReport(g)

(***************************************************************************)
(* SpecKeep: the two runners and the two aggregators invoked again and     *)
(* again with one RUN_ID while the samples of the output tree are deleted  *)
(* or rewritten between the invocations.                                   *)
(***************************************************************************)
\* The samples of the tree, each with the texts it holds one after the
\* other: a sample the analyzer reports on and later fails on, and a sample
\* that is later left empty.
KeepFileInputs ==
    {[dir |-> <<S_baseline>>,
      name |-> SampleName(S_task04_command, S_gemma3_27b, 7),
      texts |-> <<Variant(S_src_cmd_shell, TRUE, ScanIssues, {}),
                  Variant(S_src_cmd_shell, TRUE, ScanToolError, {})>>],
     [dir |-> <<S_improved>>,
      name |-> SampleName(S_task01_sql, S_gpt_oss_20b, 101),
      texts |-> <<Variant(S_src_sql_qmark, TRUE, ScanClean, {}),
                  Variant(<<>>, TRUE, ScanClean, {})>>]}

\* The file of a slot holding the i-th of its texts.
KeepFile(slot, i) ==
    [dir |-> slot.dir, name |-> slot.name, src |-> slot.texts[i].src,
     readable |-> slot.texts[i].readable, res |-> slot.texts[i].res,
     raises |-> slot.texts[i].raises]

InitKeep ==
    /\ cfgRoot = S_root_opt
    /\ cfgRunId = S_RUNX
    /\ outTree \in {[exists |-> TRUE, files |-> files, order |-> order] :
                       files \in {{KeepFile(slot, 1) : slot \in KeepFileInputs}},
                       order \in WalkOrders({KeepFile(slot, 1) :
                                                slot \in KeepFileInputs})}
    /\ analyzer = [installed |-> TRUE, version |-> S_bandit_version \o <<"\n">>]
    /\ madeDirs = {}
    /\ lastRun = NoResult
    /\ disk = NoDisk
    /\ banditDir = {}
    /\ probeDir = {}
    /\ errLog = <<>>
    /\ crashed = FALSE
    /\ unit = NoResult
    /\ pyPath = <<>>
    /\ lastScan = NoResult
    /\ scans = 0
    /\ nameParsed = NoResult
    /\ metaParsed = NoResult
    /\ banditSamplesCsv = NoFile
    /\ banditAggCsv = NoFile
    /\ probesSamplesCsv = NoFile
    /\ probesAggCsv = NoFile
    /\ JsonIdle
    /\ ProbeIdle
    /\ GenIdle

\* Between two invocations a sample file is deleted, or rewritten with its
\* next text; the runners read the tree as they find it.
ChangeSample ==
    /\ \E f \in outTree.files :
        \/ outTree' = [outTree EXCEPT
                          !.files = @ \ {f},
                          !.order = SelectSeq(@, LAMBDA g : g # f)]
        \/ \E slot \in KeepFileInputs : \E i \in 1..(Len(slot.texts) - 1) :
            /\ f = KeepFile(slot, i)
            /\ \E g \in {KeepFile(slot, i + 1)} :
                outTree' = [outTree EXCEPT
                               !.files = (@ \ {f}) \cup {g},
                               !.order = [k \in DOMAIN @ |->
                                             IF @[k] = f THEN g ELSE @[k]]]
    /\ UNCHANGED <<jsonVars, sampleVars, aggVars, madeDirs, lastRun, analyzer,
                   disk, probeVars,
                   genVars>>

KeepRunBandit == RunBanditMain

KeepRunProbes == RunProbesMain

\* `python parse_bandit_results.py` on the reports run_bandit.py wrote: the
\* files hold the analyzer's output as text.
KeepParseBandit ==
    /\ \E found \in GlobOrders({[dir |-> cfgRunId, file |-> g] :
                                   g \in banditDir}) :
        IF glob_load_raises(found, cfgRoot)
        THEN /\ crashed' = TRUE
             /\ UNCHANGED <<banditSamplesCsv, banditAggCsv>>
        ELSE \E rows \in {GlobBanditRows(found, cfgRoot, cfgRunId)} :
                /\ crashed' = FALSE
                /\ banditSamplesCsv' = CsvFile(rows)
                /\ banditAggCsv' = CsvFile(BanditAggRows(cfgRunId, rows))
    /\ UNCHANGED <<cfgRoot, cfgRunId, unit, pyPath, banditDir, errLog,
                   lastScan, scans, nameParsed, metaParsed, jsonVars, probeDir,
                   probesSamplesCsv, probesAggCsv, runVars, probeVars,
                   genVars>>

KeepParseProbes == ProbesAggMain

NextKeep ==
    \/ ChangeSample
    \/ KeepRunBandit
    \/ KeepRunProbes
    \/ KeepParseBandit
    \/ KeepParseProbes

SpecKeep == InitKeep /\ [][NextKeep]_vars

(***************************************************************************)
(* Claims about the reports that stay in the report directories.           *)
(***************************************************************************)
\* The step removes no file name from either report directory.
ReportNamesKept ==
    /\ FileNames(banditDir) \subseteq FileNames(banditDir')
    /\ FileNames(probeDir) \subseteq FileNames(probeDir')

\* A step that writes a samples CSV gives a row to every report the
\* directory holds, whether or not the tree still has its sample.
AggregationCountsAll ==
    /\ banditSamplesCsv' # banditSamplesCsv =>
           \A f \in banditDir :
               f.name # S_meta_json =>
                   RowsOfFile(banditSamplesCsv', ReportPath(f)) # {}
    /\ probesSamplesCsv' # probesSamplesCsv =>
           \A f \in probeDir : RowsOfFile(probesSamplesCsv', f.name) # {}

\* C26: reports are only created or overwritten, never removed: over any
\* sequence of invocations of the two runners with one RUN_ID the set of
\* file names of each report directory never shrinks, so the report of a
\* sample that was deleted, emptied, or whose scan fails on a later run
\* stays in place and is counted by the next aggregation.
C26_ReportsKept ==
    [][ReportNamesKept /\ AggregationCountsAll]_vars

\* The reports of the samples the tree no longer holds, or holds with a
\* text that gives no report any more.
OrphanBanditReports ==
    {r \in banditDir :
        /\ r.name # S_meta_json
        /\ \A f \in PyFiles(outTree) :
               r.name = SampleBanditReport(f) =>
                   ~scan_ok(f.res.returncode, f.res.stdout)}

OrphanProbeReports ==
    {r \in probeDir :
        \A f \in ProbedSamples :
            r.name = SampleProbeReport(f) => f.src = <<>>}

\* C26 witness: both runners have run again after one sample was deleted
\* or made to fail its scan and another was emptied; the reports written
\* for them earlier are still in the directories, and the samples CSV files
\* have a row for each.
C26_Witness ==
    /\ lastRun.applied
    /\ lastRun.existed
    /\ \E f \in PyFiles(outTree) : ~scan_ok(f.res.returncode, f.res.stdout)
    /\ \E f \in ProbedSamples : f.src = <<>>
    /\ banditSamplesCsv.exists
    /\ probesSamplesCsv.exists
    /\ \E r \in OrphanBanditReports :
           RowsOfFile(banditSamplesCsv, ReportPath(r)) # {}
    /\ \E r \in OrphanProbeReports :
           RowsOfFile(probesSamplesCsv, r.name) # {}

(***************************************************************************)
(* Claims about the sample identity the two scoring pipelines derive.      *)
(***************************************************************************)
\* (task, model, arm, seed) of a parser's result
IdentityOf(p) == <<p.task, p.model, p.arm, p.seed>>

\* C27: for every sample file the probe runner parses, the (task, model,
\* arm, seed) parse_file_meta gives for its path equals the (task, model,
\* arm, seed) parse_filename gives for the name of the Bandit report of the
\* same file.
C27_Original ==
    (nameParsed.applied /\ metaParsed.applied /\ ~metaParsed.none) =>
        IdentityOf(metaParsed) = IdentityOf(nameParsed)

(***************************************************************************)
(* SpecProbeReagg: the probe aggregator invoked again and again while      *)
(* reports are written into the probe report directory.                    *)
(***************************************************************************)
\* A report document that lacks the keys `missing`.
WithoutKeys(doc, missing) == [k \in DOMAIN doc \ missing |-> doc[k]]

\* The reports written: each as the document run_probes.py writes, as a
\* document that lacks a key, or as a text that is not JSON (a write that
\* was cut short).
ProbeReaggFileInputs ==
    {[name |-> probe_report_name(S_task04_command, S_gemma3_27b, 7, S_baseline),
      docs |-> {ProbeDoc(S_task04_command, S_gemma3_27b, 7, S_baseline,
                         <<Probe("cmd_no_shell", FALSE)>>),
                WithoutKeys(ProbeDoc(S_task04_command, S_gemma3_27b, 7,
                                     S_baseline,
                                     <<Probe("cmd_no_shell", TRUE)>>),
                            {"probes"}),
                NotJson}],
     [name |-> probe_report_name(S_task01_sql, S_gpt_oss_20b, 101, S_improved),
      docs |-> {ProbeDoc(S_task01_sql, S_gpt_oss_20b, 101, S_improved,
                         <<Probe("sql_parameterized", TRUE)>>)}
               \cup {WithoutKeys(ProbeDoc(S_task01_sql, S_gpt_oss_20b, 101,
                                          S_improved,
                                          <<Probe("sql_parameterized", TRUE)>>),
                                 {k}) :
                        k \in {"task", "model", "arm", "seed"}}]}

InitProbeReagg ==
    /\ cfgRoot = S_root_opt
    /\ cfgRunId = S_RUNX
    /\ banditDir = {}
    /\ unit = NoResult
    /\ pyPath = <<>>
    /\ errLog = <<>>
    /\ lastScan = NoResult
    /\ scans = 0
    /\ crashed = FALSE
    /\ nameParsed = NoResult
    /\ metaParsed = NoResult
    /\ AggIdle
    /\ JsonIdle
    /\ RunIdle
    /\ ProbeIdle
    /\ GenIdle

\* One file of the probe report directory is written or rewritten.
WriteProbeReport ==
    /\ \E f \in ProbeReaggFileInputs : \E doc \in f.docs :
        probeDir' = WriteFile(probeDir, f.name, doc)
    /\ UNCHANGED <<jsonVars, sampleVars, banditSamplesCsv, banditAggCsv,
                   probesSamplesCsv, probesAggCsv, runVars, probeVars,
                   genVars>>

\* parse_probes.py is invoked on the directory as it is.
ReaggProbesMain == ProbesAggMain

NextProbeReagg == WriteProbeReport \/ ReaggProbesMain

SpecProbeReagg == InitProbeReagg /\ [][NextProbeReagg]_vars

(***************************************************************************)
(* Claims about the abort of the probe aggregation.                        *)
(***************************************************************************)
ProbeReportKeys == {"task", "model", "arm", "seed"}

MalformedProbeReports ==
    {f \in probeDir :
        \/ "not_json" \in DOMAIN f.content
        \/ ~(ProbeReportKeys \subseteq DOMAIN f.content)}

\* C28: when a probe report of the directory is not JSON or lacks one of
\* the keys task, model, arm, seed, an invocation of the probe aggregator
\* ends with an exception and leaves the probes samples CSV and the probes
\* aggregated CSV as they were (absent, or as an earlier invocation wrote
\* them).
C28_ProbeAggAborts ==
    [][(MalformedProbeReports # {} /\ probeDir' = probeDir)
          => /\ crashed'
             /\ probesSamplesCsv' = probesSamplesCsv
             /\ probesAggCsv' = probesAggCsv]_vars

\* C28 witness: an invocation has aborted on a directory that holds a
\* report without the key seed next to a well-formed report that has no
\* row in the samples CSV an earlier invocation wrote.
C28_Witness ==
    /\ crashed
    /\ \E f \in MalformedProbeReports :
           /\ "not_json" \notin DOMAIN f.content
           /\ "seed" \notin DOMAIN f.content
    /\ probesSamplesCsv.exists
    /\ Len(probesSamplesCsv.rows) >= 1
    /\ \E f \in probeDir \ MalformedProbeReports :
           RowsOfFile(probesSamplesCsv, f.name) = {}

(***************************************************************************)
(* run_generate.py: main.  One unit is one pass of a try block of the      *)
(* innermost loop: generate_once and extract_code, save_raw, save_code,    *)
(* then the finally clause.  An exception raised in the try block is       *)
(* caught by `except Exception` and leads to the finally clause.           *)
(***************************************************************************)
MaxFailures == 2    \* most units of a run in which an exception is raised

\* TASKS: the ids of the first tasks of the list
TASKS == <<S_task01_sql, S_task04_command>>

\* TASK_ALLOW is None
AllowAll == [none |-> TRUE]
AllowOnly(ids) == [none |-> FALSE, ids |-> ids]

\* [t for t in TASKS if (not TASK_ALLOW or t["id"] in TASK_ALLOW)]
select_tasks(tasks, allow) ==
    SelectSeq(tasks, LAMBDA t : allow.none \/ allow.ids = {} \/ t \in allow.ids)

\* len(selected_tasks) * len(MODELS) * len(SEEDS) * 2
total_units(selected, models, seeds) ==
    Len(selected) * Len(models) * Len(seeds) * 2

\* save_raw: the name of the record of a unit
raw_name(task_id, model, seed, arm) ==
    task_id \o <<"_">> \o py_replace(model, ":", "-") \o S_sep_s
        \o py_str(seed) \o <<"_">> \o arm \o S_dot_json

\* The position of the three for loops and of the two try blocks.
LoopPos(ti, mi, si, arm) == [ti |-> ti, mi |-> mi, si |-> si, arm |-> arm]

\* The unit of a position: the task, model and seed the loop variables hold.
UnitOf(pos, selected, models, seeds) ==
    [pos |-> pos, task |-> selected[pos.ti], model |-> models[pos.mi],
     seed |-> seeds[pos.si], arm |-> pos.arm]

\* The try block that follows the one at `pos`; none after the last seed of
\* the last model of the last task.
loop_next(pos, selected, models, seeds) ==
    IF pos.arm = S_baseline
    THEN [more |-> TRUE, pos |-> [pos EXCEPT !.arm = S_improved]]
    ELSE IF pos.si < Len(seeds)
    THEN [more |-> TRUE, pos |-> LoopPos(pos.ti, pos.mi, pos.si + 1, S_baseline)]
    ELSE IF pos.mi < Len(models)
    THEN [more |-> TRUE, pos |-> LoopPos(pos.ti, pos.mi + 1, 1, S_baseline)]
    ELSE IF pos.ti < Len(selected)
    THEN [more |-> TRUE, pos |-> LoopPos(pos.ti + 1, 1, 1, S_baseline)]
    ELSE [more |-> FALSE]

\* C30 mutant: save_code is called although save_raw raised.
next_stage_past_raw(stage, ok) ==
    IF stage = "generate" THEN (IF ok THEN "save_raw" ELSE "finally")
    ELSE IF stage = "save_raw" THEN "save_code"
    ELSE "finally"

\* The statement main executes after a stage of a try block ended
\* normally (ok) or with an exception.
next_stage(stage, ok) ==
    IF ~ok THEN "finally"
    ELSE IF stage = "generate" THEN "save_raw"
    ELSE IF stage = "save_raw" THEN "save_code"
    ELSE "finally"

\* C29 mutant: `done` is advanced at the end of the try block instead of
\* in the finally clause.
done_after_unit_on_success(done, ok) == IF ok THEN done + 1 ELSE done

\* finally: done += 1
done_after_unit(done, ok) == done + 1

(***************************************************************************)
(* SpecGen: one invocation of run_generate.py.                             *)
(***************************************************************************)
S_gpt_oss_20b_dash == py_replace(S_gpt_oss_20b, ":", "-")
S_task99_none == <<"t","a","s","k","9","9","_","n","o","n","e">>

\* TASK_ALLOW, MODELS and SEEDS of the invocation: all tasks or some, one
\* model or two (two that give the same file names among them), one seed
\* or two (a seed given twice among them), and lists that select nothing.
GenConfigInputs ==
    {[allow |-> a, models |-> m, seeds |-> <<101>>] :
        a \in {AllowAll, AllowOnly({S_task04_command}),
               AllowOnly({S_task99_none})},
        m \in {<<S_gpt_oss_20b>>, <<S_gpt_oss_20b, S_gemma3_27b>>,
               <<S_gpt_oss_20b, S_gpt_oss_20b_dash>>, <<>>}}
    \cup
    {[allow |-> a, models |-> <<S_gemma3_27b>>, seeds |-> s] :
        a \in {AllowAll, AllowOnly({S_task01_sql, S_task99_none})},
        s \in {<<7, 101>>, <<101, 101>>, <<>>}}

InitGen ==
    /\ cfgRoot = S_root_opt
    /\ cfgRunId = S_RUNX
    /\ gen \in {[pc |-> "start", allow |-> c.allow, models |-> c.models,
                 seeds |-> c.seeds] : c \in GenConfigInputs}
    /\ banditDir = {}
    /\ unit = NoResult
    /\ pyPath = <<>>
    /\ errLog = <<>>
    /\ lastScan = NoResult
    /\ scans = 0
    /\ crashed = FALSE
    /\ nameParsed = NoResult
    /\ metaParsed = NoResult
    /\ AggIdle
    /\ JsonIdle
    /\ RunIdle
    /\ ProbeIdle

\* main up to the first try block: ensure_dirs, write_config, the selected
\* tasks, total_units and done = 0.  `attempts` lists the try blocks
\* entered, `writes` the files opened for writing, in order.
GenStart ==
    /\ gen.pc = "start"
    /\ \E selected \in {select_tasks(TASKS, gen.allow)} :
        gen' = [pc |-> IF selected # <<>> /\ gen.models # <<>>
                          /\ gen.seeds # <<>>
                       THEN "generate" ELSE "finished",
                allow |-> gen.allow, models |-> gen.models,
                seeds |-> gen.seeds, selected |-> selected,
                total |-> total_units(selected, gen.models, gen.seeds),
                done |-> 0,
                pos |-> LoopPos(1, 1, 1, S_baseline),
                attempts |-> IF selected # <<>> /\ gen.models # <<>>
                                /\ gen.seeds # <<>>
                             THEN <<[pos |-> LoopPos(1, 1, 1, S_baseline),
                                     failedAt |-> "none"]>>
                             ELSE <<>>,
                writes |-> <<>>,
                failures |-> 0]
    /\ UNCHANGED <<jsonVars, sampleVars, aggVars, runVars, probeVars>>

\* An exception may be raised in the try block entered last while fewer
\* than MaxFailures try blocks have raised one.
MayRaise == gen.failures < MaxFailures

\* The state of main after the stage of the current try block ended.
AfterStage(stage, ok, written) ==
    [gen EXCEPT !.pc = next_stage(stage, ok),
                !.failures = IF ok THEN @ ELSE @ + 1,
                !.attempts[Len(gen.attempts)].failedAt =
                    IF ok THEN @ ELSE stage,
                !.writes = @ \o written]

\* generate_once(...) and extract_code(...) of the try block
GenerateOnce ==
    /\ gen.pc = "generate"
    /\ \E ok \in BOOLEAN :
        /\ ok \/ MayRaise
        /\ gen' = AfterStage("generate", ok, <<>>)
    /\ UNCHANGED <<jsonVars, sampleVars, aggVars, runVars, probeVars>>

\* save_raw(...): the record is opened for writing and dumped; an
\* exception is raised by open (no file) or by json.dump (a file cut short).
SaveRaw ==
    /\ gen.pc = "save_raw"
    /\ \E u \in {UnitOf(gen.pos, gen.selected, gen.models, gen.seeds)} :
        \E ok \in BOOLEAN, opened \in BOOLEAN :
            /\ ok \/ MayRaise
            /\ ok => opened
            /\ gen' = AfterStage("save_raw", ok,
                          IF opened
                          THEN <<[kind |-> "raw", attempt |-> Len(gen.attempts),
                                  name |-> raw_name(u.task, u.model, u.seed,
                                                    u.arm),
                                  complete |-> ok]>>
                          ELSE <<>>)
    /\ UNCHANGED <<jsonVars, sampleVars, aggVars, runVars, probeVars>>

\* save_code(...): the sample is opened for writing and written.
GenSaveCode ==
    /\ gen.pc = "save_code"
    /\ \E u \in {UnitOf(gen.pos, gen.selected, gen.models, gen.seeds)} :
        \E ok \in BOOLEAN, opened \in BOOLEAN :
            /\ ok \/ MayRaise
            /\ ok => opened
            /\ gen' = AfterStage("save_code", ok,
                          IF opened
                          THEN <<[kind |-> "code", attempt |-> Len(gen.attempts),
                                  name |-> save_code_path(cfgRunId, u.arm,
                                               u.task, u.model, u.seed),
                                  complete |-> ok]>>
                          ELSE <<>>)
    /\ UNCHANGED <<jsonVars, sampleVars, aggVars, runVars, probeVars>>

\* The finally clause of the try block, then the next try block or the end
\* of the loops.
UnitFinally ==
    /\ gen.pc = "finally"
    /\ \E nxt \in {loop_next(gen.pos, gen.selected, gen.models, gen.seeds)},
          ok \in {gen.attempts[Len(gen.attempts)].failedAt = "none"} :
        gen' = [gen EXCEPT
                   !.done = done_after_unit(@, ok),
                   !.pc = IF nxt.more THEN "generate" ELSE "finished",
                   !.pos = IF nxt.more THEN nxt.pos ELSE @,
                   !.attempts = IF nxt.more
                                THEN Append(@, [pos |-> nxt.pos,
                                                failedAt |-> "none"])
                                ELSE @]
    /\ UNCHANGED <<jsonVars, sampleVars, aggVars, runVars, probeVars>>

NextGen == GenStart \/ GenerateOnce \/ SaveRaw \/ GenSaveCode \/ UnitFinally

SpecGen == InitGen /\ [][NextGen]_vars

(***************************************************************************)
(* Claims about the generation run.                                        *)
(***************************************************************************)
GenStarted == gen.pc \notin {"idle", "start"}

\* The k-th unit of selected tasks x MODELS x SEEDS x (baseline, improved),
\* the seeds of a model together, baseline before improved.
NthUnit(k) ==
    LoopPos(((k - 1) \div (2 * Len(gen.seeds) * Len(gen.models))) + 1,
            (((k - 1) \div (2 * Len(gen.seeds))) % Len(gen.models)) + 1,
            (((k - 1) \div 2) % Len(gen.seeds)) + 1,
            IF (k - 1) % 2 = 0 THEN S_baseline ELSE S_improved)

\* The try blocks whose finally clause has run.
UnitsEnded ==
    IF gen.pc \in {"generate", "save_raw", "save_code", "finally"}
    THEN Len(gen.attempts) - 1
    ELSE Len(gen.attempts)

\* C29: every unit (selected task, model, seed, arm), the lists taken as
\* they are given, is attempted exactly once, baseline before improved for
\* each (task, model, seed); an exception in one unit does not keep any
\* later unit from being attempted; done grows by one with every unit
\* attempted, whether it succeeded or failed, never exceeds total_units,
\* and equals total_units = |selected tasks| * |MODELS| * |SEEDS| * 2 when
\* main finishes.
C29_EveryUnitOnce ==
    GenStarted =>
        /\ gen.total = Len(gen.selected) * Len(gen.models) * Len(gen.seeds) * 2
        /\ gen.done <= gen.total
        /\ gen.done = UnitsEnded
        /\ \A k \in DOMAIN gen.attempts : gen.attempts[k].pos = NthUnit(k)
        /\ gen.pc # "finished" => ENABLED NextGen
        /\ gen.pc = "finished" =>
               /\ gen.done = gen.total
               /\ Len(gen.attempts) = gen.total

\* C29 witness: main has finished a run of eight units in which exceptions
\* were raised in two units, one of them not the last.
C29_Witness ==
    /\ gen.pc = "finished"
    /\ gen.total = 8
    /\ gen.done = 8
    /\ gen.failures = 2
    /\ \E k \in DOMAIN gen.attempts :
           k < gen.total /\ gen.attempts[k].failedAt = "generate"

\* The writes of one kind made by the k-th try block.
WritesOf(k, kind) ==
    {i \in DOMAIN gen.writes :
        gen.writes[i].attempt = k /\ gen.writes[i].kind = kind}

\* C30: the raw record of a unit is written before its code file: when
\* save_code has written outputs/<RUN_ID>/<arm>/<task>_<model>_s<seed>.py,
\* raw/<task>_<model>_s<seed>_<arm>.json of the same unit has been written
\* before, and when writing the raw record fails no code file is written
\* for the unit.
C30_RawBeforeCode ==
    GenStarted =>
        \A k \in DOMAIN gen.attempts :
            \A u \in {UnitOf(gen.attempts[k].pos, gen.selected, gen.models,
                             gen.seeds)} :
                /\ \A i \in WritesOf(k, "code") :
                       /\ gen.writes[i].name
                              = save_code_path(cfgRunId, u.arm, u.task,
                                               u.model, u.seed)
                       /\ \E j \in WritesOf(k, "raw") :
                              /\ j < i
                              /\ gen.writes[j].complete
                              /\ gen.writes[j].name
                                     = raw_name(u.task, u.model, u.seed, u.arm)
                /\ gen.attempts[k].failedAt = "save_raw" =>
                       WritesOf(k, "code") = {}

\* C30 witness: in one run a unit has written its raw record and then its
\* code file, and another unit, whose raw record was cut short, has
\* written no code file.
C30_Witness ==
    /\ gen.pc = "finished"
    /\ \E k \in DOMAIN gen.attempts :
           /\ gen.attempts[k].failedAt = "none"
           /\ WritesOf(k, "code") # {}
    /\ \E k \in DOMAIN gen.attempts :
           /\ gen.attempts[k].failedAt = "save_raw"
           /\ \E j \in WritesOf(k, "raw") : ~gen.writes[j].complete

====
